---- MODULE Spec2Model ----
\* Model of engine/rag_engine.py: page-level PDF index, keyword search and the
\* embeddings routing of LexTransition-AI.
EXTENDS Integers, Sequences, FiniteSets, TLC

\* ---------------------------------------------------------------- bounds
\* Audit entries a database holds at most.
MaxAudit == 5

\* Seconds the wall clock runs through.
MaxClock == 2

\* Most files one directory holds at a time.
MaxFiles == 2
\* Largest top_k a caller passes.
MaxTopK == 3
\* Model loads counted before the count saturates.
MaxLoads == 2
\* Length of the long page, chosen past the snippet window.
LongLen == 304

\* ------------------------------------------------------ program constants
\* rag_engine.py:175  doc["text"][first_pos:first_pos+300]
SnippetWindow == 300
\* rag_engine.py:175  doc["text"][:200]
FallbackWindow == 200

\* ------------------------------------------------------------ Python str
\* A str is a sequence of one-character strings.
Whitespace == {" ", "\n"}

SetMin(S) == CHOOSE x \in S : \A y \in S : x <= y

SetMax(S) == CHOOSE x \in S : \A y \in S : x >= y

\* str.lower(), per character
LowerChar(c) ==
  CASE c = "A" -> "a" [] c = "B" -> "b" [] c = "C" -> "c" [] c = "I" -> "i"
    [] c = "P" -> "p" [] c = "S" -> "s" [] OTHER -> c

Lower(s) == SubSeq([i \in 1..Len(s) |-> LowerChar(s[i])], 1, Len(s))

\* str.strip(): from the first to the last character that is not whitespace
Strip(s) ==
  LET n == Len(s)
      keep == {i \in 1..n : s[i] \notin Whitespace}
      first == CHOOSE i \in keep : \A j \in 1..(i - 1) : s[j] \in Whitespace
      final == CHOOSE i \in keep : \A j \in (i + 1)..n : s[j] \in Whitespace
  IN IF keep = {} THEN <<>> ELSE SubSeq(s, first, final)

\* str.split() with no argument: the maximal runs of non-whitespace, in order
RECURSIVE SplitFrom(_, _, _)
SplitFrom(s, i, cur) ==
  IF i > Len(s) THEN (IF cur = <<>> THEN <<>> ELSE <<cur>>)
  ELSE IF s[i] \in Whitespace
       THEN (IF cur = <<>> THEN <<>> ELSE <<cur>>) \o SplitFrom(s, i + 1, <<>>)
       ELSE SplitFrom(s, i + 1, Append(cur, s[i]))

Split(s) == SplitFrom(s, 1, <<>>)

\* sub occurs in s at the 1-based position i
OccursAt(s, sub, i) ==
  /\ i >= 1
  /\ i + Len(sub) - 1 <= Len(s)
  /\ \A k \in 1..Len(sub) : s[i + k - 1] = sub[k]

\* str.count(sub): non-overlapping occurrences, scanning left to right; the
\* scan goes on behind each occurrence found
RECURSIVE CountFrom(_, _, _)
CountFrom(s, sub, i) ==
  LET at == {j \in i..(Len(s) - Len(sub) + 1) : OccursAt(s, sub, j)}
  IN IF at = {} THEN 0 ELSE 1 + CountFrom(s, sub, SetMin(at) + Len(sub))

Count(s, sub) == CountFrom(s, sub, 1)

\* str.find(sub): the lowest 0-based offset, or -1
Find(s, sub) ==
  LET at == {i \in 1..Len(s) : OccursAt(s, sub, i)}
  IN IF at = {} THEN -1 ELSE SetMin(at) - 1

\* s[a:b] for 0 <= a <= b
Slice(s, a, b) ==
  LET hi == IF b < Len(s) THEN b ELSE Len(s)
  IN IF a >= hi THEN <<>> ELSE SubSeq(s, a + 1, hi)

\* str.replace("\n", " ")
ReplaceNewlines(s) == [i \in 1..Len(s) |-> IF s[i] = "\n" THEN " " ELSE s[i]]

\* ------------------------------------------------------- the file system
\* The default corpus directory of index_pdfs and one other directory.
DefaultDir == "law_pdfs"

Dirs == {DefaultDir, "other"}

\* Page texts as pdfplumber's page.extract_text() returns them.
TextAB == <<"a", " ", "b">>

TextA3 == <<"A", " ", "a", ".", "a">>

TextBlank == <<" ", "\n">>

TextPadded == <<" ", "b", "\n", "a", " ">>

TextA == <<"a">>

TextB == <<"b">>

\* A page longer than the snippet window: filler with an "a" at offset 2, a
\* newline at offset 4 and a "b" as its last character.
LongText ==
  [i \in 1..LongLen |->
     IF i = 3 THEN "a" ELSE IF i = 5 THEN "\n" ELSE IF i = LongLen THEN "b" ELSE "x"]

PageText(t) == [kind |-> "text", text |-> t]

\* extract_text() returned None
PageNone == [kind |-> "none", text |-> <<>>]

\* extract_text() raised
PageRaise == [kind |-> "raise", text |-> <<>>]

\* The files that may appear on disk: whether glob's *.pdf matches the name,
\* whether pdfplumber.open raises, and what each page's extraction yields.
FilePool ==
  [name \in {"one.pdf", "two.pdf", "bad.pdf", "broken.pdf", "notes.txt", "long.pdf"} |->
     CASE name = "one.pdf" ->
            [pdf |-> TRUE, openFails |-> FALSE, pages |-> <<PageText(TextAB)>>]
       [] name = "long.pdf" ->
            [pdf |-> TRUE, openFails |-> FALSE, pages |-> <<PageText(LongText)>>]
       [] name = "two.pdf" ->
            [pdf |-> TRUE, openFails |-> FALSE,
             pages |-> <<PageText(TextBlank), PageText(TextA3), PageText(TextPadded)>>]
       [] name = "bad.pdf" ->
            [pdf |-> TRUE, openFails |-> FALSE,
             pages |-> <<PageText(TextA), PageNone, PageRaise, PageText(TextB)>>]
       [] name = "broken.pdf" ->
            [pdf |-> TRUE, openFails |-> TRUE, pages |-> <<>>]
       [] OTHER ->
            [pdf |-> FALSE, openFails |-> TRUE, pages |-> <<>>]]

FileNames == DOMAIN FilePool

\* The files of the small corpus that may be written into each directory.
DirPool(d) ==
  IF d = DefaultDir THEN {"one.pdf", "broken.pdf"}
  ELSE {"two.pdf", "bad.pdf", "notes.txt"}

SeqToSet(s) == {s[i] : i \in 1..Len(s)}

\* ------------------------------------------------------------------ state
VARIABLES
  fs,                    \* directory -> [exists, files in glob's enumeration order]
  env_flag,              \* os.environ.get("LTA_USE_EMBEDDINGS") == "1", read per call
  pdfplumber,            \* the pdfplumber import succeeded (module constant)
  USE_EMB,               \* _USE_EMB, fixed at import
  EMB_AVAILABLE,         \* _EMB_AVAILABLE, fixed at import
  EMB_ENGINE_AVAILABLE,  \* _EMB_ENGINE_AVAILABLE, fixed at import
  INDEX,                 \* _INDEX
  INDEX_LOADED,          \* _INDEX_LOADED
  EMB_INDEX,             \* _EMB_INDEX
  EMB_MODEL,             \* _EMB_MODEL
  extIndex,              \* the index the embeddings engine persisted
  last,                  \* the last event: a call with its arguments, or a disk change
  ret,                   \* what the last call returned
  emptyPass,             \* an index pass over a directory without PDFs returned True,
                         \* and no index_pdfs call on a directory with PDFs came since
  cleared,               \* clear_index ran and no index_pdfs / add_pdf call came since
  built,                 \* an index_pdfs call (a caller's, add_pdf's or a search's lazy
                         \* one) returned True, or clear_index ran
  loads,                 \* SentenceTransformer(...) calls that returned a model so far
  thr,                   \* the frame of an index_pdfs call running on a second thread
  db,                    \* the file at db._DB_FILE: missing, not SQLite, or a database
  backups,               \* the backup files: path -> content, as for db
  clock,                 \* the UTC second the wall clock shows
  mappings,              \* mapping_logic._mappings: entries in insertion order
  mapfile,               \* the JSON file named by LTA_MAPPING_DB: its entries
  dblast                 \* the last call of db or mapping_logic, with what it returned

\* The state of rag_engine and of the engine it imports.
ragVars == <<fs, env_flag, pdfplumber, USE_EMB, EMB_AVAILABLE, EMB_ENGINE_AVAILABLE,
             INDEX, INDEX_LOADED, EMB_INDEX, EMB_MODEL, extIndex, last, ret,
             emptyPass, cleared, built, loads, thr>>

\* The state of db and mapping_logic.
storeVars == <<db, backups, clock, mappings, mapfile, dblast>>

vars == <<ragVars, storeVars>>

imports == <<pdfplumber, USE_EMB, EMB_AVAILABLE, EMB_ENGINE_AVAILABLE>>

\* ------------------------------------------------------- values and inputs
NoModel == "None"

MiniLM == "all-MiniLM-L6-v2"

\* A query argument: None, or a str.
QNone == [none |-> TRUE, s |-> <<>>]

Q(s) == [none |-> FALSE, s |-> s]

Queries == {QNone, Q(<<>>), Q(<<" ">>), Q(<<"a">>), Q(<<"A", " ", "b">>), Q(<<".">>)}

TopKs == (0 - 1)..MaxTopK

\* The calls of search_pdfs: every top_k with a query that has text; a blank
\* query returns before top_k is read, so one top_k stands for all.
SearchInputs ==
  {in \in Queries \X TopKs : in[1].none \/ Strip(in[1].s) = <<>> => in[2] = 1}

\* Return values: None, a bool, or a rendered result (its mode and one entry
\* per "Source" bullet).
RetNone == [kind |-> "None", ok |-> FALSE, mode |-> "", hits |-> <<>>]

RetBool(b) == [kind |-> "bool", ok |-> b, mode |-> "", hits |-> <<>>]

RetResult(mode, hits) == [kind |-> "result", ok |-> TRUE, mode |-> mode, hits |-> hits]

\* The call raised instead of returning.
RetRaise == [kind |-> "raise", ok |-> FALSE, mode |-> "", hits |-> <<>>]

\* An event: the call and its arguments, the flag as the call read it, and
\* for an indexing call whether the directory existed before it (existed),
\* whether it repeats the indexing call just before it on the same directory
\* (again) and whether the index then held records of files that are not in
\* the directory (stale); for a search, whether it ran the lazy build (lazy);
\* for add_pdf, the directory part of its file_path argument (dirname); for
\* the engine's build_index, the number of texts passed (texts).
Event(op, dir, query, top_k) ==
  [op |-> op, dir |-> dir, query |-> query, top_k |-> top_k, flag |-> env_flag,
   existed |-> TRUE, again |-> FALSE, stale |-> FALSE, lazy |-> FALSE,
   dirname |-> dir, texts |-> 0]

\* ------------------------------------------- values of db and mapping_logic
\* Section numbers, as Python str.
Key420 == <<"4", "2", "0">>

Key302 == <<"3", "0", "2">>

Key378 == <<"3", "7", "8">>

Key111 == <<"1", "1", "1">>

Key222 == <<"2", "2", "2">>

Key333 == <<"3", "3", "3">>

\* A mapping as the dict both modules pass around.
Mapping(bns, ipcText, bnsText, notes, source, category) ==
  [bns_section |-> bns, ipc_full_text |-> ipcText, bns_full_text |-> bnsText,
   notes |-> notes, source |-> source, category |-> category]

\* A row of the mappings table.
Row(s, m) ==
  [ipc_section |-> s, bns_section |-> m.bns_section,
   ipc_full_text |-> m.ipc_full_text, bns_full_text |-> m.bns_full_text,
   notes |-> m.notes, source |-> m.source, category |-> m.category]

\* get_all_mappings' dict value of a row: the row without its key.
MappingOf(row) ==
  Mapping(row.bns_section, row.ipc_full_text, row.bns_full_text, row.notes,
          row.source, row.category)

\* _serialize_mapping(mapping): the JSON of the dict, or of {} for None.
NoValue == [empty |-> TRUE, row |-> Row(<<>>, Mapping("", "", "", "", "", ""))]

Serialized(row) == [empty |-> FALSE, row |-> row]

\* A row of the mapping_audit table (created_at left out).
AuditEntry(id, action, s, previous, new, actor) ==
  [id |-> id, action |-> action, ipc_section |-> s, previous_value |-> previous,
   new_value |-> new, actor |-> actor]

\* The content of a file that may be a database: missing, not an SQLite
\* database, or a database with or without its tables, the rows of mappings
\* and of mapping_audit in rowid order and the last AUTOINCREMENT id given.
NoFile == [kind |-> "missing", tables |-> FALSE, mappings |-> <<>>, audit |-> <<>>, seq |-> 0]

NotSqlite == [NoFile EXCEPT !.kind = "corrupt"]

\* The empty file sqlite3.connect creates.
EmptyFile == [NoFile EXCEPT !.kind = "db"]

\* mapping_logic._default_mappings, in dict order (texts shortened).
DefaultMappings ==
  << [key |-> Key420, value |-> Mapping("BNS 318", "ipc 420", "bns 318", "Cheating",
                                       "Official Gazette", "Cheating")],
     [key |-> Key302, value |-> Mapping("BNS 103", "ipc 302", "bns 103", "Murder",
                                       "Official Gazette", "Offenses Against Human Body")],
     [key |-> Key378, value |-> Mapping("BNS 303", "ipc 378", "bns 303", "Theft",
                                       "Official Gazette", "Offenses Against Property")] >>

\* The database after db's initialize_db() and mapping_logic's
\* _load_mappings() on first import: the tables, and the defaults inserted
\* one by one, each with its audit entry.
ImportedDb ==
  [kind |-> "db", tables |-> TRUE,
   mappings |-> [i \in 1..Len(DefaultMappings) |->
                   Row(DefaultMappings[i].key, DefaultMappings[i].value)],
   audit |-> [i \in 1..Len(DefaultMappings) |->
                AuditEntry(i, "insert", DefaultMappings[i].key, NoValue,
                           Serialized(Row(DefaultMappings[i].key, DefaultMappings[i].value)),
                           "system")],
   seq |-> Len(DefaultMappings)]

\* A backup path: the caller's own (stamp 0), or the one backup_database
\* names after the second it runs in.
BackupPaths == [stamp : 0..MaxClock]

OwnPath == [stamp |-> 0]

\* The mapping file as the tests write it before the import.
InitialMapfile ==
  << [key |-> Key111, value |-> Mapping("BNS 111", "", "", "test", "test", "")] >>

\* A call of db or mapping_logic: its arguments, the bool it returned (ok),
\* whether the section had a row before it (existed), the entries or the
\* path it returned or was given, and for restore_database how its backup
\* of the live database went (pre): not tried, made or failed, and whether
\* its copy over the live database raised; for map_ipc_to_bns its query,
\* the mapping it returned (mapping) or that it returned None (none).
DbEvent(op, s, m) ==
  [op |-> op, ipc_section |-> s, mapping |-> m, ok |-> FALSE, existed |-> FALSE,
   persist |-> FALSE, limit |-> 0, entries |-> <<>>, path |-> OwnPath, none |-> TRUE,
   pre |-> "none", raised |-> FALSE, query |-> QNone]

\* db and mapping_logic after the import of the application.
StoreInit ==
  /\ db = ImportedDb
  /\ backups = [p \in BackupPaths |-> NoFile]
  /\ clock = 1
  /\ mappings = DefaultMappings
  /\ mapfile = InitialMapfile
  /\ dblast = DbEvent("import", <<>>, Mapping("", "", "", "", "", ""))

\* No index_pdfs call is running on a second thread. A running call's frame
\* holds the line it is at (pc), its dir_path, its locals files, docs and
\* vecs, the list zip(_INDEX, vecs) iterates (src) and the entries appended
\* so far (k), and _INDEX, _EMB_INDEX and _INDEX_LOADED as they were when it
\* began.
Idle ==
  [pc |-> "idle", dir |-> "", files |-> <<>>, docs |-> <<>>, vecs |-> <<>>,
   src |-> <<>>, k |-> 0, old |-> <<>>, oldEmb |-> <<>>, loaded |-> FALSE]

\* The load count after n more loads.
Loaded(n) == IF loads + n < MaxLoads THEN loads + n ELSE MaxLoads

IndexOps == {"index_pdfs", "add_pdf"}

Init ==
  /\ fs = [d \in Dirs |-> [exists |-> FALSE, files |-> <<>>]]
  /\ pdfplumber \in BOOLEAN
  /\ USE_EMB = FALSE
  /\ EMB_AVAILABLE = USE_EMB
  /\ EMB_ENGINE_AVAILABLE = FALSE
  /\ env_flag \in BOOLEAN
  /\ INDEX = <<>>
  /\ INDEX_LOADED = FALSE
  /\ EMB_INDEX = <<>>
  /\ EMB_MODEL = NoModel
  /\ extIndex = <<>>
  /\ last = Event("import", "", QNone, 0)
  /\ ret = RetNone
  /\ emptyPass = FALSE
  /\ cleared = FALSE
  /\ built = FALSE
  /\ loads = 0
  /\ thr = Idle
  /\ StoreInit

\* ---------------------------------------------------------- environment
\* A file is written into a directory (creating the directory if needed).
WriteFile(d, f) ==
  /\ f \in FileNames
  /\ f \notin SeqToSet(fs[d].files)
  /\ Len(fs[d].files) < MaxFiles
  /\ fs' = [fs EXCEPT ![d] = [exists |-> TRUE, files |-> Append(fs[d].files, f)]]
  /\ last' = Event("write", d, QNone, 0)
  /\ ret' = RetNone
  /\ UNCHANGED <<storeVars, env_flag, imports, INDEX, INDEX_LOADED, EMB_INDEX, EMB_MODEL,
                 extIndex, emptyPass, cleared, built, loads, thr>>

\* A file is removed from a directory.
RemoveFile(d, f) ==
  /\ f \in SeqToSet(fs[d].files)
  /\ fs' = [fs EXCEPT ![d].files = SelectSeq(fs[d].files, LAMBDA x : x # f)]
  /\ last' = Event("remove", d, QNone, 0)
  /\ ret' = RetNone
  /\ UNCHANGED <<storeVars, env_flag, imports, INDEX, INDEX_LOADED, EMB_INDEX, EMB_MODEL,
                 extIndex, emptyPass, cleared, built, loads, thr>>

\* The process environment variable LTA_USE_EMBEDDINGS is changed.
SetEnv(b) ==
  /\ env_flag # b
  /\ env_flag' = b
  /\ last' = [Event("setenv", "", QNone, 0) EXCEPT !.flag = b]
  /\ ret' = RetNone
  /\ UNCHANGED <<storeVars, fs, imports, INDEX, INDEX_LOADED, EMB_INDEX, EMB_MODEL,
                 extIndex, emptyPass, cleared, built, loads, thr>>

\* ------------------------------------------------------------- index_pdfs
\* Mutant of Glob: dir_path is ignored and the default directory is scanned.
Glob_default(d) == SelectSeq(fs[DefaultDir].files, LAMBDA f : FilePool[f].pdf)

\* glob.glob(os.path.join(dir_path, "*.pdf")) after _ensure_dir(dir_path)
Glob(d) == SelectSeq(fs[d].files, LAMBDA f : FilePool[f].pdf)

\* The records one file appends to docs before its with-block ends: every page
\* up to the first page whose extraction raises, each stripped, kept if non-empty.
RECURSIVE PageDocs(_, _, _)
PageDocs(f, pages, i) ==
  IF i > Len(pages) \/ pages[i].kind = "raise" THEN <<>>
  ELSE LET text == Strip(pages[i].text)
       IN (IF text # <<>> THEN <<[file |-> f, page |-> i, text |-> text]>> ELSE <<>>)
          \o PageDocs(f, pages, i + 1)

\* Mutant of FileDocs: every page is stored with its text as extracted,
\* empty and whitespace-only pages included.
FileDocs_every_page(f) ==
  IF FilePool[f].openFails THEN <<>>
  ELSE [i \in 1..Len(FilePool[f].pages) |->
          [file |-> f, page |-> i, text |-> FilePool[f].pages[i].text]]

\* Mutant of FileDocs: a record's page is its position among the records
\* kept of its file.
FileDocs_renumbered(f) ==
  IF FilePool[f].openFails THEN <<>>
  ELSE [i \in 1..Len(PageDocs(f, FilePool[f].pages, 1)) |->
          [PageDocs(f, FilePool[f].pages, 1)[i] EXCEPT !.page = i]]

\* The records of one file: none if pdfplumber.open raises.
FileDocs(f) ==
  IF FilePool[f].openFails THEN <<>> ELSE PageDocs(f, FilePool[f].pages, 1)

\* The loop over files: docs in file enumeration order.
RECURSIVE ExtractDocs(_)
ExtractDocs(files) ==
  IF files = <<>> THEN <<>>
  ELSE FileDocs(Head(files)) \o ExtractDocs(Tail(files))

\* Mutant of BuildDocs: the pass appends to the records already indexed.
BuildDocs_append(files) == INDEX \o ExtractDocs(files)

\* docs as index_pdfs builds it from the files glob returned
BuildDocs(files) == ExtractDocs(files)

\* The embedding model, abstracted: a text's vector counts its letters, and
\* the similarity of two vectors is their dot product.
Embed(t) == <<Count(Lower(t), <<"a">>), Count(Lower(t), <<"b">>)>>

Sim(u, v) == u[1] * v[1] + u[2] * v[2]

\* engine.embeddings_engine.build_index(texts, metas): the persisted index,
\* replaced wholesale; texts cropped to 1000 and snippets to 300 characters.
BuildExtIndex(docs) ==
  [i \in 1..Len(docs) |->
     [file |-> docs[i].file, page |-> docs[i].page,
      snippet |-> Slice(docs[i].text, 0, SnippetWindow),
      vec |-> Embed(Slice(docs[i].text, 0, 1000))]]

\* The in-process _EMB_INDEX built from docs.
BuildEmbIndex(docs) ==
  [i \in 1..Len(docs) |->
     [file |-> docs[i].file, page |-> docs[i].page, text |-> docs[i].text,
      vec |-> Embed(docs[i].text)]]

\* Whether a failure of a library call can be seen by this call at all.
Outcomes(relevant) == IF relevant THEN BOOLEAN ELSE {TRUE}

\* The in-process embedding index is the one index_pdfs maintains.
InProcess == USE_EMB /\ EMB_AVAILABLE /\ ~EMB_ENGINE_AVAILABLE

\* Mutant of EmptyPassIndex: the pass without PDFs leaves _INDEX as it was.
EmptyPassIndex_kept == INDEX

\* _INDEX after the pass over a directory without PDFs
EmptyPassIndex == <<>>

\* Mutant of EmptyPassLoaded: the pass without PDFs leaves _INDEX_LOADED as
\* it was.
EmptyPassLoaded_unset == INDEX_LOADED

\* _INDEX_LOADED after the pass over a directory without PDFs
EmptyPassLoaded == TRUE

\* Mutant of CachedModel: the model just loaded stays a local of the call.
CachedModel_local(model) == EMB_MODEL

\* _EMB_MODEL after "if _EMB_MODEL is None: _EMB_MODEL = SentenceTransformer(...)",
\* model being the cached instance or the one just loaded
CachedModel(model) == model

\* Mutant of PassResult: a pass that extracted nothing reports failure.
PassResult_nonempty(docs) == docs # <<>>

\* What index_pdfs returns after a pass with docs extracted (return True)
PassResult(docs) == TRUE

\* Mutant of AbsentLoaded: the call that finds no pdfplumber marks the index
\* as built.
AbsentLoaded_set == TRUE

\* _INDEX_LOADED when index_pdfs returns False for want of pdfplumber
AbsentLoaded == INDEX_LOADED

\* The state index_pdfs(d) leaves and the value it returns. loadOk, encOk and
\* buildOk say whether SentenceTransformer(...), model.encode(...) and the
\* engine's build_index(...) succeed on this call (each may raise).
\* loaded says whether the call loaded a model.
index_pdfs(d, loadOk, encOk, buildOk) ==
  LET files == Glob(d)
      same == [ret |-> FALSE, INDEX |-> INDEX, INDEX_LOADED |-> INDEX_LOADED,
               EMB_INDEX |-> EMB_INDEX, EMB_MODEL |-> EMB_MODEL, extIndex |-> extIndex,
               hadPdfs |-> files # <<>>, loaded |-> FALSE]
  IN IF ~pdfplumber THEN [same EXCEPT !.INDEX_LOADED = AbsentLoaded]
     ELSE IF files = <<>>
     THEN [same EXCEPT !.ret = PassResult(<<>>), !.INDEX_LOADED = EmptyPassLoaded,
                       !.INDEX = EmptyPassIndex, !.EMB_INDEX = <<>>]
     ELSE LET docs == BuildDocs(files)
              inproc == InProcess
              loaded == inproc /\ EMB_MODEL = NoModel /\ loadOk
              model == IF loaded THEN MiniLM ELSE EMB_MODEL
          IN [same EXCEPT
                !.ret = PassResult(docs),
                !.INDEX = docs,
                !.INDEX_LOADED = TRUE,
                !.extIndex = IF env_flag /\ EMB_ENGINE_AVAILABLE /\ buildOk
                             THEN BuildExtIndex(docs) ELSE extIndex,
                !.EMB_MODEL = CachedModel(model),
                !.EMB_INDEX = IF inproc /\ model # NoModel /\ encOk
                              THEN BuildEmbIndex(docs) ELSE EMB_INDEX,
                !.loaded = loaded]

\* _ensure_dir(dir_path)
EnsureDir(d) == [fs EXCEPT ![d].exists = TRUE]

\* A caller's index_pdfs(dir_path), or add_pdf(file_path) through it, dirname
\* being the directory the caller named.
IndexCall(op, dirname, d, loadOk, encOk, buildOk) ==
  LET r == index_pdfs(d, loadOk, encOk, buildOk)
  IN /\ fs' = EnsureDir(d)
     /\ INDEX' = r.INDEX
     /\ INDEX_LOADED' = r.INDEX_LOADED
     /\ EMB_INDEX' = r.EMB_INDEX
     /\ EMB_MODEL' = r.EMB_MODEL
     /\ extIndex' = r.extIndex
     /\ ret' = RetBool(r.ret)
     /\ last' = [Event(op, d, QNone, 0) EXCEPT
                   !.dirname = dirname,
                   !.existed = fs[d].exists,
                   !.again = (last.op \in IndexOps /\ last.dir = d),
                   !.stale = (\E i \in 1..Len(INDEX) :
                                INDEX[i].file \notin SeqToSet(Glob(d)))]
     /\ emptyPass' = IF r.hadPdfs THEN FALSE ELSE (r.ret \/ emptyPass)
     /\ cleared' = FALSE
     /\ built' = (built \/ r.ret)
     /\ loads' = Loaded(IF r.loaded THEN 1 ELSE 0)
     /\ UNCHANGED <<storeVars, env_flag, imports, thr>>

IndexPdfs(d) ==
  \E loadOk \in Outcomes(InProcess /\ EMB_MODEL = NoModel),
     encOk \in Outcomes(InProcess),
     buildOk \in Outcomes(env_flag /\ EMB_ENGINE_AVAILABLE) :
    IndexCall("index_pdfs", d, d, loadOk, encOk, buildOk)

\* Mutant of AddPdfDir: the directory part of file_path is ignored.
AddPdfDir_default(dirname) == DefaultDir

\* add_pdf(file_path): os.path.dirname(file_path) or "law_pdfs"
AddPdfDir(dirname) == IF dirname = "" THEN DefaultDir ELSE dirname

AddPdf(dirname) ==
  \E loadOk \in Outcomes(InProcess /\ EMB_MODEL = NoModel),
     encOk \in Outcomes(InProcess),
     buildOk \in Outcomes(env_flag /\ EMB_ENGINE_AVAILABLE) :
     IndexCall("add_pdf", dirname, AddPdfDir(dirname), loadOk, encOk, buildOk)

\* ------------------------------------------------------------ clear_index
\* Mutant of ClearedLoaded: clear_index marks the index as not built.
ClearedLoaded_unbuilt == FALSE

\* _INDEX_LOADED as clear_index leaves it
ClearedLoaded == TRUE

ClearIndex ==
  /\ INDEX' = <<>>
  /\ INDEX_LOADED' = ClearedLoaded
  /\ EMB_INDEX' = <<>>
  /\ ret' = RetNone
  /\ last' = Event("clear_index", "", QNone, 0)
  /\ cleared' = TRUE
  /\ built' = TRUE
  /\ UNCHANGED <<storeVars, fs, env_flag, imports, EMB_MODEL, extIndex, emptyPass, loads, thr>>

\* ------------------------------------------------------------ search_pdfs
\* Mutant of Truncate: one element too many (seq[:k+1]).
Truncate_plus_one(seq, k) ==
  SubSeq(seq, 1, IF k + 1 < Len(seq) THEN (IF k + 1 > 0 THEN k + 1 ELSE 0) ELSE Len(seq))

\* seq[:k] of Python: the first k elements, or all but the last -k when k < 0
Truncate(seq, k) ==
  LET n == IF k >= 0 THEN (IF k < Len(seq) THEN k ELSE Len(seq))
           ELSE (IF Len(seq) + k > 0 THEN Len(seq) + k ELSE 0)
  IN SubSeq(seq, 1, n)

\* Mutant of InsertByScore: descending, but equal scores end up reversed
\* (a sort followed by reverse() instead of reverse=True).
InsertByScore_reversed_ties(sorted, x) ==
  LET ahead == Cardinality({i \in 1..Len(sorted) : sorted[i].score > x.score})
  IN SubSeq(sorted, 1, ahead) \o <<x>> \o SubSeq(sorted, ahead + 1, Len(sorted))

\* list.sort(key=lambda x: x[0], reverse=True): stable, descending by score.
\* x goes behind every element whose score is at least its own.
InsertByScore(sorted, x) ==
  LET ahead == Cardinality({i \in 1..Len(sorted) : sorted[i].score >= x.score})
  IN SubSeq(sorted, 1, ahead) \o <<x>> \o SubSeq(sorted, ahead + 1, Len(sorted))

RECURSIVE SortByScore(_)
SortByScore(seq) ==
  IF seq = <<>> THEN <<>>
  ELSE InsertByScore(SortByScore(SubSeq(seq, 1, Len(seq) - 1)), seq[Len(seq)])

\* Mutant of Tokens: the query is not lowercased.
Tokens_cased(q) == Split(Strip(q))

\* Mutant of Tokens: tokens without a letter are dropped.
Tokens_letters(q) ==
  SelectSeq(Split(Strip(Lower(q))), LAMBDA t : \E i \in 1..Len(t) : t[i] \in {"a", "b"})

\* tokens = [t for t in query.lower().strip().split() if t]
Tokens(q) == Split(Strip(Lower(q)))

\* score = sum(txt.count(t) for t in tokens), txt the lowercased page text
RECURSIVE SumCounts(_, _)
SumCounts(txt, tokens) ==
  IF tokens = <<>> THEN 0
  ELSE Count(txt, Head(tokens)) + SumCounts(txt, Tail(tokens))

Score(text, tokens) == SumCounts(Lower(text), tokens)

\* Mutant of Scores: pages with score 0 are listed too.
Scores_zero(score) == score >= 0

\* if score > 0: the page is listed
Scores(score) == score > 0

\* first_pos = min((txt.find(t) for t in tokens if txt.find(t) >= 0), default=-1)
FirstPos(text, tokens) ==
  LET found == {Find(Lower(text), tokens[i]) : i \in 1..Len(tokens)} \ {0 - 1}
  IN IF found = {} THEN 0 - 1 ELSE SetMin(found)

\* Mutant of Snippet: the window has no end (text[first_pos:]).
Snippet_unbounded(text, tokens) ==
  LET first_pos == FirstPos(text, tokens)
  IN IF first_pos >= 0
     THEN ReplaceNewlines(Slice(text, first_pos, Len(text)))
     ELSE Slice(text, 0, FallbackWindow)

\* snippet = text[first_pos:first_pos+300].replace("\n", " ") if first_pos >= 0
\*           else text[:200]
Snippet(text, tokens) ==
  LET first_pos == FirstPos(text, tokens)
  IN IF first_pos >= 0
     THEN ReplaceNewlines(Slice(text, first_pos, first_pos + SnippetWindow))
     ELSE Slice(text, 0, FallbackWindow)

\* scored: one (score, file, page, snippet) per page with a listed score
RECURSIVE ScoredPages(_, _)
ScoredPages(idx, tokens) ==
  IF idx = <<>> THEN <<>>
  ELSE LET doc == Head(idx)
           score == Score(doc.text, tokens)
       IN (IF Scores(score)
           THEN <<[score |-> score, file |-> doc.file, page |-> doc.page,
                   snippet |-> Snippet(doc.text, tokens)]>>
           ELSE <<>>)
          \o ScoredPages(Tail(idx), tokens)

\* One bullet per result: Source, Page and the stripped snippet.
KeywordHits(results) ==
  [i \in 1..Len(results) |->
     [file |-> results[i].file, page |-> results[i].page,
      snippet |-> Strip(results[i].snippet)]]

\* The token-count search over idx, the keyword index at that point.
keyword_search(idx, q, top_k) ==
  IF idx = <<>> THEN RetNone
  ELSE LET tokens == Tokens(q)
       IN IF tokens = <<>> THEN RetNone
          ELSE LET scored == ScoredPages(idx, tokens)
               IN IF scored = <<>> THEN RetNone
                  ELSE RetResult("keyword",
                                 KeywordHits(Truncate(SortByScore(scored), top_k)))

\* Mutant of EmbeddingMiss: the keyword search answers instead.
EmbeddingMiss_fallback(idx, q, top_k) == keyword_search(idx, q, top_k)

\* One bullet per embedding result: Source, Page, Score and snippet.
EmbeddingHits(results) ==
  [i \in 1..Len(results) |->
     [file |-> results[i].file, page |-> results[i].page,
      score |-> results[i].score, snippet |-> results[i].snippet]]

\* engine.embeddings_engine.search(query, top_k): the top_k stored entries by
\* similarity to the query, or nothing when unavailable or without an index.
ExtSearch(q, top_k) ==
  IF ~EMB_ENGINE_AVAILABLE \/ extIndex = <<>> THEN <<>>
  ELSE Truncate(SortByScore(
         [i \in 1..Len(extIndex) |->
            [score |-> Sim(Embed(q), extIndex[i].vec), file |-> extIndex[i].file,
             page |-> extIndex[i].page, snippet |-> extIndex[i].snippet]]), top_k)

\* _emb_search(query, top_k): None without an in-process index or when the
\* model load or the query encoding raises; else the rendered top_k.
emb_search(q, top_k, loadOk, encOk) ==
  IF EMB_INDEX = <<>> \/ ~EMB_AVAILABLE THEN RetNone
  ELSE IF (EMB_MODEL = NoModel /\ ~loadOk) \/ ~encOk THEN RetNone
  ELSE RetResult("embedding",
         EmbeddingHits(Truncate(SortByScore(
           [i \in 1..Len(EMB_INDEX) |->
              [score |-> Sim(Embed(q), EMB_INDEX[i].vec), file |-> EMB_INDEX[i].file,
               page |-> EMB_INDEX[i].page,
               snippet |-> ReplaceNewlines(Slice(EMB_INDEX[i].text, 0, SnippetWindow))]]),
           top_k)))

\* What search_pdfs returns when the flag is on and neither embedding path
\* produced a result: no fallback to the keyword search over idx.
EmbeddingMiss(idx, q, top_k) == RetNone

\* The branch of search_pdfs taken when LTA_USE_EMBEDDINGS is "1".
embedding_route(idx, q, top_k, loadOk, encOk, engineOk) ==
  LET emb_res == IF EMB_ENGINE_AVAILABLE /\ engineOk THEN ExtSearch(q, top_k) ELSE <<>>
      inproc == IF USE_EMB /\ EMB_AVAILABLE THEN emb_search(q, top_k, loadOk, encOk)
                ELSE RetNone
  IN IF emb_res # <<>> THEN RetResult("embedding", EmbeddingHits(emb_res))
     ELSE IF inproc # RetNone THEN inproc
     ELSE EmbeddingMiss(idx, q, top_k)

\* Whether this flagged search calls SentenceTransformer(...) in _emb_search
\* ("model = _EMB_MODEL or SentenceTransformer(...)") and gets a model: the
\* engine gave no result, the in-process index has entries and no model is
\* cached.
emb_search_loads(q, top_k, loadOk, engineOk) ==
  /\ ~(EMB_ENGINE_AVAILABLE /\ engineOk /\ ExtSearch(q, top_k) # <<>>)
  /\ USE_EMB /\ EMB_AVAILABLE /\ EMB_INDEX # <<>>
  /\ EMB_MODEL = NoModel /\ loadOk

\* Mutant of BlankQuery: only "not query" is tested, not "not query.strip()".
BlankQuery_unstripped(query) == query.none \/ query.s = <<>>

\* if not query or not query.strip(): return None
BlankQuery(query) == query.none \/ query.s = <<>> \/ Strip(query.s) = <<>>

\* Mutant of UseEmbeddings: the flag as read at import (_USE_EMB) is used.
UseEmbeddings_at_import == USE_EMB

\* if os.environ.get("LTA_USE_EMBEDDINGS") == "1": the flag as search_pdfs
\* reads it on each call
UseEmbeddings == env_flag

\* search_pdfs(query, top_k). In keyword mode without a built index it first
\* runs index_pdfs() on the default directory (r is the state after that call,
\* now the state as it is) and returns None if that call returned False.
SearchPdfs(query, top_k) ==
  \E loadOk \in Outcomes(USE_EMB /\ EMB_AVAILABLE /\ EMB_MODEL = NoModel),
     encOk \in Outcomes(USE_EMB /\ EMB_AVAILABLE),
     engineOk \in Outcomes(EMB_ENGINE_AVAILABLE) :
    LET flagged == UseEmbeddings
        lazy == ~BlankQuery(query) /\ ~flagged /\ ~INDEX_LOADED
        now == [ret |-> TRUE, INDEX |-> INDEX, INDEX_LOADED |-> INDEX_LOADED,
                EMB_INDEX |-> EMB_INDEX, EMB_MODEL |-> EMB_MODEL,
                extIndex |-> extIndex, hadPdfs |-> FALSE, loaded |-> FALSE]
        r == IF lazy THEN index_pdfs(DefaultDir, loadOk, encOk, engineOk) ELSE now
    IN /\ fs' = IF lazy THEN EnsureDir(DefaultDir) ELSE fs
       /\ INDEX' = r.INDEX
       /\ INDEX_LOADED' = r.INDEX_LOADED
       /\ EMB_INDEX' = r.EMB_INDEX
       /\ EMB_MODEL' = r.EMB_MODEL
       /\ extIndex' = r.extIndex
       /\ ret' = IF BlankQuery(query) THEN RetNone
                 ELSE IF flagged
                 THEN embedding_route(INDEX, query.s, top_k, loadOk, encOk, engineOk)
                 ELSE IF ~r.ret THEN RetNone
                 ELSE keyword_search(r.INDEX, query.s, top_k)
       /\ last' = [Event("search_pdfs", "", query, top_k) EXCEPT !.lazy = lazy]
       /\ emptyPass' = IF lazy /\ r.ret /\ ~r.hadPdfs THEN TRUE ELSE emptyPass
       /\ built' = (built \/ (lazy /\ r.ret))
       /\ loads' = Loaded(IF r.loaded
                             \/ (~BlankQuery(query) /\ flagged
                                 /\ emb_search_loads(query.s, top_k, loadOk, engineOk))
                          THEN 1 ELSE 0)
       /\ UNCHANGED <<storeVars, env_flag, imports, cleared, thr>>

\* ------------------------------------- index_pdfs on a second thread
\* index_pdfs(dir_path) run by a second thread of the process, one action per
\* read or write of a module global, so that the calls of the first thread
\* fall between them.
ThrEvent(d) == Event("index_pdfs:thread", d, QNone, 0)

\* A step of the running call that moves it to line pc.
ThrStep(pc) ==
  /\ thr' = [thr EXCEPT !.pc = pc]
  /\ last' = ThrEvent(thr.dir)
  /\ ret' = RetNone

\* Lines 47-65: the directory is created, the files are listed and their
\* pages extracted into the local docs.
ThrBegin(d) ==
  /\ thr.pc = "idle"
  /\ fs' = EnsureDir(d)
  /\ thr' = IF ~pdfplumber THEN Idle
            ELSE [Idle EXCEPT !.pc = IF Glob(d) = <<>> THEN "line52" ELSE "line66",
                              !.dir = d, !.files = Glob(d),
                              !.docs = BuildDocs(Glob(d)),
                              !.old = INDEX, !.oldEmb = EMB_INDEX,
                              !.loaded = INDEX_LOADED]
  /\ last' = ThrEvent(d)
  /\ ret' = IF ~pdfplumber THEN RetBool(FALSE) ELSE RetNone
  /\ UNCHANGED <<storeVars, env_flag, imports, INDEX, INDEX_LOADED, EMB_INDEX, EMB_MODEL,
                 extIndex, emptyPass, cleared, built, loads>>

\* Line 52: _INDEX_LOADED = True
ThrEmptyLoaded ==
  /\ thr.pc = "line52"
  /\ INDEX_LOADED' = EmptyPassLoaded
  /\ ThrStep("line53")
  /\ UNCHANGED <<storeVars, fs, env_flag, imports, INDEX, EMB_INDEX, EMB_MODEL, extIndex,
                 emptyPass, cleared, built, loads>>

\* Line 53: _INDEX = []
ThrEmptyIndex ==
  /\ thr.pc = "line53"
  /\ INDEX' = EmptyPassIndex
  /\ ThrStep("line54")
  /\ UNCHANGED <<storeVars, fs, env_flag, imports, INDEX_LOADED, EMB_INDEX, EMB_MODEL, extIndex,
                 emptyPass, cleared, built, loads>>

\* Line 54: _EMB_INDEX = []
ThrEmptyEmb ==
  /\ thr.pc = "line54"
  /\ EMB_INDEX' = <<>>
  /\ ThrStep("line91")
  /\ UNCHANGED <<storeVars, fs, env_flag, imports, INDEX, INDEX_LOADED, EMB_MODEL, extIndex,
                 emptyPass, cleared, built, loads>>

\* Line 66: _INDEX = docs
ThrSwapIndex ==
  /\ thr.pc = "line66"
  /\ INDEX' = thr.docs
  /\ ThrStep("line67")
  /\ UNCHANGED <<storeVars, fs, env_flag, imports, INDEX_LOADED, EMB_INDEX, EMB_MODEL, extIndex,
                 emptyPass, cleared, built, loads>>

\* Line 67: _INDEX_LOADED = True
ThrSetLoaded ==
  /\ thr.pc = "line67"
  /\ INDEX_LOADED' = TRUE
  /\ ThrStep("line70")
  /\ UNCHANGED <<storeVars, fs, env_flag, imports, INDEX, EMB_INDEX, EMB_MODEL, extIndex,
                 emptyPass, cleared, built, loads>>

\* Lines 70-79: the engine's index is built from _INDEX if the flag is set
\* and the engine is available; then the in-process branch is entered or not.
ThrBuildExt ==
  /\ thr.pc = "line70"
  /\ \E buildOk \in Outcomes(env_flag /\ EMB_ENGINE_AVAILABLE) :
       extIndex' = IF env_flag /\ EMB_ENGINE_AVAILABLE /\ buildOk
                   THEN BuildExtIndex(INDEX) ELSE extIndex
  /\ ThrStep(IF InProcess THEN "line81" ELSE "line91")
  /\ UNCHANGED <<storeVars, fs, env_flag, imports, INDEX, INDEX_LOADED, EMB_INDEX, EMB_MODEL,
                 emptyPass, cleared, built, loads>>

\* Line 81: if _EMB_MODEL is None
ThrCheckModel ==
  /\ thr.pc = "line81"
  /\ ThrStep(IF EMB_MODEL = NoModel THEN "line82" ELSE "line83")
  /\ UNCHANGED <<storeVars, fs, env_flag, imports, INDEX, INDEX_LOADED, EMB_INDEX, EMB_MODEL,
                 extIndex, emptyPass, cleared, built, loads>>

\* Line 82: _EMB_MODEL = SentenceTransformer(...), reached because line 81
\* saw no cached model; a load that raises ends the branch.
ThrLoadModel ==
  /\ thr.pc = "line82"
  /\ \E loadOk \in BOOLEAN :
       /\ EMB_MODEL' = CachedModel(IF loadOk THEN MiniLM ELSE EMB_MODEL)
       /\ loads' = Loaded(IF loadOk THEN 1 ELSE 0)
       /\ ThrStep(IF loadOk THEN "line83" ELSE "line91")
  /\ UNCHANGED <<storeVars, fs, env_flag, pdfplumber, USE_EMB, EMB_AVAILABLE,
                 EMB_ENGINE_AVAILABLE, INDEX, INDEX_LOADED, EMB_INDEX, extIndex,
                 emptyPass, cleared, built>>

\* Lines 83-84: the texts of _INDEX are encoded into the local vecs; an
\* encode that raises ends the branch.
ThrEncode ==
  /\ thr.pc = "line83"
  /\ \E encOk \in BOOLEAN :
       /\ thr' = [thr EXCEPT !.pc = IF encOk THEN "line85" ELSE "line91",
                             !.vecs = IF encOk
                                      THEN [i \in 1..Len(INDEX) |-> Embed(INDEX[i].text)]
                                      ELSE <<>>]
       /\ last' = ThrEvent(thr.dir)
       /\ ret' = RetNone
  /\ UNCHANGED <<storeVars, fs, env_flag, imports, INDEX, INDEX_LOADED, EMB_INDEX, EMB_MODEL,
                 extIndex, emptyPass, cleared, built, loads>>

\* Line 85: _EMB_INDEX = []
ThrResetEmb ==
  /\ thr.pc = "line85"
  /\ EMB_INDEX' = <<>>
  /\ ThrStep("line86")
  /\ UNCHANGED <<storeVars, fs, env_flag, imports, INDEX, INDEX_LOADED, EMB_MODEL, extIndex,
                 emptyPass, cleared, built, loads>>

\* Line 86: zip(_INDEX, vecs) reads _INDEX; the loop ends at once if either
\* is empty.
ThrZip ==
  /\ thr.pc = "line86"
  /\ thr' = [thr EXCEPT !.pc = IF INDEX = <<>> \/ thr.vecs = <<>>
                                THEN "line91" ELSE "line87",
                        !.src = INDEX, !.k = 0]
  /\ last' = ThrEvent(thr.dir)
  /\ ret' = RetNone
  /\ UNCHANGED <<storeVars, fs, env_flag, imports, INDEX, INDEX_LOADED, EMB_INDEX, EMB_MODEL,
                 extIndex, emptyPass, cleared, built, loads>>

\* Line 87: _EMB_INDEX.append({...}) for the next pair of the zip, in place
\* on the list the global names.
ThrAppend ==
  /\ thr.pc = "line87"
  /\ LET k == thr.k + 1
         d == thr.src[k]
     IN /\ EMB_INDEX' = Append(EMB_INDEX,
                               [file |-> d.file, page |-> d.page, text |-> d.text,
                                vec |-> thr.vecs[k]])
        /\ thr' = [thr EXCEPT !.k = k,
                              !.pc = IF k < Len(thr.src) /\ k < Len(thr.vecs)
                                     THEN "line87" ELSE "line91"]
  /\ last' = ThrEvent(thr.dir)
  /\ ret' = RetNone
  /\ UNCHANGED <<storeVars, fs, env_flag, imports, INDEX, INDEX_LOADED, EMB_MODEL, extIndex,
                 emptyPass, cleared, built, loads>>

\* Lines 55 and 91: return True
ThrReturn ==
  /\ thr.pc = "line91"
  /\ thr' = Idle
  /\ last' = ThrEvent(thr.dir)
  /\ ret' = RetBool(TRUE)
  /\ emptyPass' = (thr.files = <<>>)
  /\ cleared' = FALSE
  /\ built' = TRUE
  /\ UNCHANGED <<storeVars, fs, env_flag, imports, INDEX, INDEX_LOADED, EMB_INDEX, EMB_MODEL,
                 extIndex, loads>>

\* ------------------------------------------------- engine.embeddings_engine
\* The operations of the embeddings engine as a caller other than rag_engine
\* (its tests) calls them. EMB_ENGINE_AVAILABLE is the engine's _EMB_AVAILABLE:
\* its flag was set at import and the embedding runtime is importable.

\* build_index(texts, metas) for the pages docs: False when unavailable or
\* when the build fails, else the index is persisted in place of the old one.
engine_build_index(docs, buildOk) ==
  IF ~EMB_ENGINE_AVAILABLE \/ ~buildOk
  THEN [ret |-> RetBool(FALSE), extIndex |-> extIndex]
  ELSE [ret |-> RetBool(TRUE), extIndex |-> BuildExtIndex(docs)]

\* load_index(): False when unavailable or when nothing is persisted.
engine_load_index == RetBool(EMB_ENGINE_AVAILABLE /\ extIndex # <<>>)

\* Mutant of engine_search: the unavailable engine is not guarded against,
\* and the call fails on the missing model.
engine_search_unguarded(q, top_k) ==
  IF ~EMB_ENGINE_AVAILABLE THEN RetRaise
  ELSE IF ExtSearch(q, top_k) = <<>> THEN RetNone
  ELSE RetResult("engine", EmbeddingHits(ExtSearch(q, top_k)))

\* search(query, top_k): None when unavailable or without hits, else the
\* list of (score, file, page, snippet).
engine_search(q, top_k) ==
  IF ~EMB_ENGINE_AVAILABLE THEN RetNone
  ELSE IF ExtSearch(q, top_k) = <<>> THEN RetNone
  ELSE RetResult("engine", EmbeddingHits(ExtSearch(q, top_k)))

\* _load_model(): None when unavailable, else the model.
engine_load_model ==
  IF ~EMB_ENGINE_AVAILABLE THEN RetNone ELSE RetResult("model", <<>>)

EngineOps ==
  {"engine.build_index", "engine.load_index", "engine.search", "engine._load_model"}

\* A direct call of an engine operation returning r and leaving the persisted
\* index ext.
EngineCall(event, r, ext) ==
  /\ ret' = r
  /\ extIndex' = ext
  /\ last' = event
  /\ UNCHANGED <<storeVars, fs, env_flag, imports, INDEX, INDEX_LOADED, EMB_INDEX, EMB_MODEL,
                 emptyPass, cleared, built, loads, thr>>

EngineBuildIndex(docs) ==
  \E buildOk \in Outcomes(EMB_ENGINE_AVAILABLE) :
    LET r == engine_build_index(docs, buildOk)
    IN EngineCall([Event("engine.build_index", "", QNone, 0) EXCEPT !.texts = Len(docs)],
                  r.ret, r.extIndex)

EngineLoadIndex ==
  EngineCall(Event("engine.load_index", "", QNone, 0), engine_load_index, extIndex)

EngineSearch(query, top_k) ==
  /\ ~query.none
  /\ EngineCall(Event("engine.search", "", query, top_k),
                engine_search(query.s, top_k), extIndex)

EngineLoadModel ==
  EngineCall(Event("engine._load_model", "", QNone, 0), engine_load_model, extIndex)

\* ------------------------------------------------------------ engine/db.py
\* get_db_connection(): sqlite3.connect(_DB_FILE) creates the file if it is
\* missing.
Connect(d) == IF d.kind = "missing" THEN EmptyFile ELSE d

\* Statements on the tables run: the file is an SQLite database and
\* initialize_db() created the tables in it.
Usable(d) == d.kind = "db" /\ d.tables

\* PRAGMA integrity_check answers "ok" (_check_sqlite_integrity): it does for
\* any file that is a database, the empty file included.
Integrity(d) == d.kind = "db"

\* SELECT * FROM mappings WHERE ipc_section = ?: the rowids of the matches.
RowsOf(d, s) == {i \in 1..Len(d.mappings) : d.mappings[i].ipc_section = s}

HasRow(d, s) == RowsOf(d, s) # {}

RowOf(d, s) == d.mappings[CHOOSE i \in RowsOf(d, s) : TRUE]

\* initialize_db(): CREATE TABLE IF NOT EXISTS for the three tables; on a
\* file that is not a database the statement raises.
initialize_db(d) ==
  LET c == Connect(d) IN IF c.kind = "db" THEN [c EXCEPT !.tables = TRUE] ELSE c

\* _log_audit(cursor, action, ipc_section, previous_value, new_value, actor)
log_audit(d, action, s, previous, new, actor) ==
  [d EXCEPT !.audit = Append(@, AuditEntry(d.seq + 1, action, s, previous, new, actor)),
            !.seq = @ + 1]

\* Mutant of insert_mapping: the audit entry is not written.
insert_mapping_unaudited(d, s, m, actor) ==
  LET c == Connect(d)
  IN IF ~Usable(c) \/ HasRow(c, s) THEN [ret |-> FALSE, db |-> c]
     ELSE [ret |-> TRUE, db |-> [c EXCEPT !.mappings = Append(@, Row(s, m))]]

\* insert_mapping(...): the INSERT raises on an existing section (PRIMARY
\* KEY) and on a file without the tables; nothing is committed then.
insert_mapping(d, s, m, actor) ==
  LET c == Connect(d)
  IN IF ~Usable(c) \/ HasRow(c, s) THEN [ret |-> FALSE, db |-> c]
     ELSE [ret |-> TRUE,
           db |-> log_audit([c EXCEPT !.mappings = Append(@, Row(s, m))],
                            "insert", s, NoValue, Serialized(Row(s, m)), actor)]

\* get_mapping(ipc_section): the row as a dict, or None (also on any error).
get_mapping(d, s) ==
  IF Usable(d) /\ HasRow(d, s) THEN Serialized(RowOf(d, s)) ELSE NoValue

\* The action update_mapping logs.
UpdateAction == "update"

\* update_mapping(...): False without a row for the section; else the row is
\* replaced, the audit entry holds the previous row, and the call returns
\* cursor.rowcount > 0, the count being that of the audit INSERT (1).
update_mapping(d, s, m, actor) ==
  LET c == Connect(d)
  IN IF ~Usable(c) \/ ~HasRow(c, s) THEN [ret |-> FALSE, db |-> c]
     ELSE [ret |-> TRUE,
           db |-> log_audit(
                    [c EXCEPT !.mappings =
                       [i \in 1..Len(c.mappings) |->
                          IF i \in RowsOf(c, s) THEN Row(s, m) ELSE c.mappings[i]]],
                    UpdateAction, s, Serialized(RowOf(c, s)), Serialized(Row(s, m)), actor)]

\* upsert_mapping(...): insert_mapping if get_mapping found nothing, else
\* update_mapping.
upsert_mapping(d, s, m, actor) ==
  IF get_mapping(Connect(d), s).empty
  THEN insert_mapping(Connect(d), s, m, actor)
  ELSE update_mapping(Connect(d), s, m, actor)

Reverse(seq) == [i \in 1..Len(seq) |-> seq[Len(seq) + 1 - i]]

\* LIMIT n: the first n rows, all of them for a negative n.
Limit(seq, n) ==
  IF n < 0 \/ n >= Len(seq) THEN seq ELSE SubSeq(seq, 1, n)

\* ORDER BY id DESC of rows held in id order
AuditOrder(seq) == Reverse(seq)

\* get_mapping_audit(ipc_section, limit): the entries of the section, or of
\* every section for an empty ipc_section, newest first, at most limit;
\* [] on any error.
get_mapping_audit(d, s, limit) ==
  IF ~Usable(d) THEN <<>>
  ELSE Limit(AuditOrder(SelectSeq(d.audit, LAMBDA e : s = <<>> \/ e.ipc_section = s)),
             limit)

\* A call of db that may write the database; the audit table is kept within
\* its bound.
DbCall(event, r) ==
  /\ Len(db.audit) < MaxAudit
  /\ db' = r.db
  /\ dblast' = [event EXCEPT !.ok = r.ret, !.none = FALSE,
                             !.existed = Usable(db) /\ HasRow(db, event.ipc_section)]
  /\ UNCHANGED <<ragVars, backups, clock, mappings, mapfile>>

InitializeDb ==
  /\ db # initialize_db(db)
  /\ db' = initialize_db(db)
  /\ dblast' = DbEvent("initialize_db", <<>>, Mapping("", "", "", "", "", ""))
  /\ UNCHANGED <<ragVars, backups, clock, mappings, mapfile>>

InsertMapping(s, m) ==
  DbCall(DbEvent("insert_mapping", s, m), insert_mapping(db, s, m, "system"))

UpdateMapping(s, m) ==
  DbCall(DbEvent("update_mapping", s, m), update_mapping(db, s, m, "system"))

UpsertMapping(s, m) ==
  DbCall(DbEvent("upsert_mapping", s, m), upsert_mapping(db, s, m, "system"))

GetMappingAudit(s, limit) ==
  /\ db' = Connect(db)
  /\ dblast' = [DbEvent("get_mapping_audit", s, Mapping("", "", "", "", "", ""))
                  EXCEPT !.limit = limit, !.none = FALSE,
                         !.entries = get_mapping_audit(Connect(db), s, limit)]
  /\ UNCHANGED <<ragVars, backups, clock, mappings, mapfile>>

\* The path backup_database makes up in second now:
\* backups/mapping_db_<%Y%m%dT%H%M%SZ>.sqlite
StampPath(now) == [stamp |-> now]

\* backup_database(backup_path): None if the database file is missing or
\* the copy raises; else the file is copied to backup_path, or to the
\* stamped path when backup_path is None (given false), and the path returned.
backup_database(d, bk, given, path, now, copyOk) ==
  LET target == IF given THEN path ELSE StampPath(now)
  IN IF d.kind = "missing" \/ ~copyOk
     THEN [none |-> TRUE, path |-> target, backups |-> bk]
     ELSE [none |-> FALSE, path |-> target, backups |-> [bk EXCEPT ![target] = d]]

\* restore_database(backup_path): False if the backup is missing or fails
\* the integrity check, or if the live database exists and its own backup
\* (to the stamped path) cannot be made; else the backup is copied over the
\* live database and the integrity of the result returned. A copy that
\* raises leaves the live database and returns False.
restore_database(d, bk, path, now, preOk, copyOk) ==
  LET pre == backup_database(d, bk, FALSE, path, now, preOk)
      bk1 == IF d.kind = "missing" THEN bk ELSE pre.backups
      same == [ret |-> FALSE, db |-> d, backups |-> bk, pre |-> "none", raised |-> FALSE]
  IN IF bk[path].kind = "missing" THEN same
     ELSE IF ~Integrity(bk[path]) THEN same
     ELSE IF d.kind # "missing" /\ pre.none THEN [same EXCEPT !.pre = "failed"]
     ELSE [ret |-> copyOk /\ Integrity(bk1[path]),
           db |-> IF copyOk THEN bk1[path] ELSE d,
           backups |-> bk1,
           pre |-> IF d.kind = "missing" THEN "none" ELSE "made",
           raised |-> ~copyOk]

\* backup_database() or backup_database(path)
BackupDatabase(given, path) ==
  \E copyOk \in Outcomes(db.kind # "missing") :
    LET r == backup_database(db, backups, given, path, clock, copyOk)
    IN /\ backups' = r.backups
       /\ dblast' = [DbEvent("backup_database", <<>>, Mapping("", "", "", "", "", ""))
                       EXCEPT !.none = r.none, !.path = r.path, !.ok = ~r.none]
       /\ UNCHANGED <<ragVars, db, clock, mappings, mapfile>>

RestoreDatabase(path) ==
  \E preOk \in Outcomes(Integrity(backups[path]) /\ db.kind # "missing"),
     copyOk \in Outcomes(Integrity(backups[path])) :
    LET r == restore_database(db, backups, path, clock, preOk, copyOk)
    IN /\ db' = r.db
       /\ backups' = r.backups
       /\ dblast' = [DbEvent("restore_database", <<>>, Mapping("", "", "", "", "", ""))
                       EXCEPT !.none = FALSE, !.path = path, !.ok = r.ret, !.pre = r.pre,
                              !.raised = r.raised]
       /\ UNCHANGED <<ragVars, clock, mappings, mapfile>>

\* A second passes.
Tick ==
  /\ clock < MaxClock
  /\ clock' = clock + 1
  /\ dblast' = DbEvent("tick", <<>>, Mapping("", "", "", "", "", ""))
  /\ UNCHANGED <<ragVars, db, backups, mappings, mapfile>>

\* The database file is overwritten with bytes that are not a database.
CorruptDatabase ==
  /\ db.kind # "corrupt"
  /\ db' = NotSqlite
  /\ dblast' = DbEvent("corrupt", <<>>, Mapping("", "", "", "", "", ""))
  /\ UNCHANGED <<ragVars, backups, clock, mappings, mapfile>>

\* The database file is deleted.
RemoveDatabase ==
  /\ db.kind # "missing"
  /\ db' = NoFile
  /\ dblast' = DbEvent("remove", <<>>, Mapping("", "", "", "", "", ""))
  /\ UNCHANGED <<ragVars, backups, clock, mappings, mapfile>>

\* ------------------------------------------------- engine/mapping_logic.py
\* A dict held as its items in insertion order.
KeysOf(maps) == {maps[i].key : i \in 1..Len(maps)}

\* maps[key]
Entry(maps, key) == maps[CHOOSE i \in 1..Len(maps) : maps[i].key = key].value

\* maps[key] = value
DictSet(maps, key, value) ==
  IF key \in KeysOf(maps)
  THEN [i \in 1..Len(maps) |->
          IF maps[i].key = key THEN [key |-> key, value |-> value] ELSE maps[i]]
  ELSE Append(maps, [key |-> key, value |-> value])

\* db.get_all_mappings(): the rows as a dict, {} on any error.
get_all_mappings(d) ==
  IF ~Usable(d) THEN <<>>
  ELSE [i \in 1..Len(d.mappings) |->
          [key |-> d.mappings[i].ipc_section, value |-> MappingOf(d.mappings[i])]]

\* The loop of _load_mappings over the defaults from the i-th on:
\* db.insert_mapping for each, its result ignored.
RECURSIVE InsertDefaults(_, _)
InsertDefaults(d, i) ==
  IF i > Len(DefaultMappings) THEN d
  ELSE InsertDefaults(insert_mapping(d, DefaultMappings[i].key,
                                     DefaultMappings[i].value, "system").db, i + 1)

\* _load_mappings(): _mappings is what the database holds; if that is
\* nothing, the defaults, which are then inserted into the database.
load_mappings(d) ==
  LET c == Connect(d)
  IN IF get_all_mappings(c) # <<>> THEN [mappings |-> get_all_mappings(c), db |-> c]
     ELSE [mappings |-> DefaultMappings, db |-> InsertDefaults(c, 1)]

\* str.replace(sub, ""): the occurrences of sub, scanning left to right, cut out
RECURSIVE RemoveAll(_, _)
RemoveAll(s, sub) ==
  IF Find(s, sub) < 0 THEN s
  ELSE Slice(s, 0, Find(s, sub))
       \o RemoveAll(Slice(s, Find(s, sub) + Len(sub), Len(s)), sub)

Digits == {"0", "1", "2", "3", "4", "5", "6", "7", "8", "9"}

\* The order of the characters of the model's queries and keys (ord).
Ord(c) ==
  CASE c = " " -> 32 [] c = "0" -> 48 [] c = "1" -> 49 [] c = "2" -> 50 [] c = "3" -> 51
    [] c = "4" -> 52 [] c = "5" -> 53 [] c = "6" -> 54 [] c = "7" -> 55 [] c = "8" -> 56
    [] c = "9" -> 57 [] c = "a" -> 97 [] c = "b" -> 98 [] c = "c" -> 99 [] c = "i" -> 105
    [] c = "p" -> 112 [] c = "s" -> 115 [] OTHER -> 0

\* x < y for str
StrLess(x, y) ==
  \E i \in 1..(Len(y)) :
    /\ \A j \in 1..(i - 1) : j <= Len(x) /\ x[j] = y[j]
    /\ (i > Len(x) \/ Ord(x[i]) < Ord(y[i]))

\* difflib.SequenceMatcher: the number of characters in the matching blocks
\* of a[alo..ahi] and b[blo..bhi]: the longest common block (the one
\* starting earliest in a, then in b), and the same to its left and right.
RECURSIVE Matches(_, _, _, _, _, _)
Matches(a, alo, ahi, b, blo, bhi) ==
  LET blocks == {t \in (alo..ahi) \X (blo..bhi) \X (1..(ahi - alo + 1)) :
                   /\ t[1] + t[3] - 1 <= ahi
                   /\ t[2] + t[3] - 1 <= bhi
                   /\ \A k \in 0..(t[3] - 1) : a[t[1] + k] = b[t[2] + k]}
      best == CHOOSE t \in blocks :
                \A u \in blocks :
                  \/ t[3] > u[3]
                  \/ t[3] = u[3] /\ t[1] < u[1]
                  \/ t[3] = u[3] /\ t[1] = u[1] /\ t[2] <= u[2]
  IN IF blocks = {} THEN 0
     ELSE best[3] + Matches(a, alo, best[1] - 1, b, blo, best[2] - 1)
                  + Matches(a, best[1] + best[3], ahi, b, best[2] + best[3], bhi)

\* SequenceMatcher.ratio() = 2 * M / T as the pair <<2 * M, T>>, 1.0 for two
\* empty strings.
Ratio(a, b) ==
  IF Len(a) + Len(b) = 0 THEN <<1, 1>>
  ELSE <<2 * Matches(a, 1, Len(a), b, 1, Len(b)), Len(a) + Len(b)>>

\* get_close_matches(word, keys, n=1, cutoff=0.6): the keys whose ratio to
\* word is at least 0.6, and of those the one with the highest ratio, the
\* greatest key among equals.
CloseMatches(word, keys) ==
  {x \in keys : 10 * Ratio(x, word)[1] >= 6 * Ratio(x, word)[2]}

ClosestMatch(word, keys) ==
  CHOOSE x \in CloseMatches(word, keys) :
    \A y \in CloseMatches(word, keys) :
      \/ Ratio(x, word)[1] * Ratio(y, word)[2] > Ratio(y, word)[1] * Ratio(x, word)[2]
      \/ /\ Ratio(x, word)[1] * Ratio(y, word)[2] = Ratio(y, word)[1] * Ratio(x, word)[2]
         /\ (x = y \/ StrLess(y, x))

\* The normalised query of map_ipc_to_bns.
Normalised(s) ==
  Strip(RemoveAll(RemoveAll(RemoveAll(Lower(Strip(s)), <<"i", "p", "c">>),
                            <<"s", "e", "c", "t", "i", "o", "n">>), <<"s">>))

\* The digits of the tokens of q that have one, in order.
NumericTokens(q) ==
  LET tokens == SelectSeq(Split(q), LAMBDA t : \E i \in 1..Len(t) : t[i] \in Digits)
  IN [i \in 1..Len(tokens) |-> SelectSeq(tokens[i], LAMBDA c : c \in Digits)]

\* map_ipc_to_bns(query): the key found, by exact match of the normalised
\* query, else the first numeric token that is a key, else the closest key.
\* found is false for None.
map_ipc_to_bns(maps, query) ==
  LET q == Normalised(query.s)
      tokens == NumericTokens(q)
      hits == {i \in 1..Len(tokens) : tokens[i] \in KeysOf(maps)}
      none == [found |-> FALSE, key |-> <<>>]
  IN IF query.none \/ query.s = <<>> THEN none
     ELSE IF q \in KeysOf(maps) THEN [found |-> TRUE, key |-> q]
     ELSE IF hits # {} THEN [found |-> TRUE, key |-> tokens[SetMin(hits)]]
     ELSE IF CloseMatches(q, KeysOf(maps)) # {}
     THEN [found |-> TRUE, key |-> ClosestMatch(q, KeysOf(maps))]
     ELSE none

\* The dict add_mapping stores: an old positional call (notes, source and
\* category left at their defaults) passed its notes as ipc_full_text and
\* its source as bns_full_text.
MappingData(bns, ipcText, bnsText, notes, source, category) ==
  IF notes = "" /\ source = "user" /\ category = "User Added" /\ bnsText # ""
  THEN Mapping(bns, "", "", ipcText, bnsText, category)
  ELSE IF notes = "" /\ source = "user" /\ category = "User Added" /\ ipcText # ""
  THEN Mapping(bns, "", "", ipcText, source, category)
  ELSE Mapping(bns, ipcText, bnsText, notes, source, category)

\* add_mapping(ipc_section, ..., persist): with persist the mapping is
\* upserted into the database and, if that succeeded, set in _mappings;
\* without it, only set in _mappings. The mapping file is not written.
add_mapping(maps, d, s, data, persist) ==
  LET key == Strip(s)
      r == upsert_mapping(d, key, data, "ui")
  IN IF persist
     THEN [ret |-> r.ret, db |-> r.db,
           mappings |-> IF r.ret THEN DictSet(maps, key, data) ELSE maps]
     ELSE [ret |-> TRUE, db |-> d, mappings |-> DictSet(maps, key, data)]

AddMapping(s, bns, ipcText, bnsText, persist) ==
  LET data == MappingData(bns, ipcText, bnsText, "", "user", "User Added")
      r == add_mapping(mappings, db, s, data, persist)
  IN /\ persist => Len(db.audit) < MaxAudit
     /\ db' = r.db
     /\ mappings' = r.mappings
     /\ dblast' = [DbEvent("add_mapping", s, data) EXCEPT
                     !.ok = r.ret, !.none = FALSE, !.persist = persist,
                     !.existed = Usable(db) /\ HasRow(db, Strip(s))]
     /\ UNCHANGED <<ragVars, backups, clock, mapfile>>

MapIpcToBns(query) ==
  LET r == map_ipc_to_bns(mappings, query)
  IN /\ dblast' = [DbEvent("map_ipc_to_bns", r.key,
                            IF r.found THEN Entry(mappings, r.key)
                            ELSE Mapping("", "", "", "", "", ""))
                     EXCEPT !.none = ~r.found, !.ok = r.found, !.query = query]
     /\ UNCHANGED <<ragVars, db, backups, clock, mappings, mapfile>>

\* The module is imported again by a new process: _load_mappings()
LoadMappings ==
  /\ db' = load_mappings(db).db
  /\ mappings' = load_mappings(db).mappings
  /\ dblast' = DbEvent("import", <<>>, Mapping("", "", "", "", "", ""))
  /\ UNCHANGED <<ragVars, backups, clock, mapfile>>

\* ---------------------------------------------------------- specification
Next ==
  \/ \E d \in Dirs : \E f \in DirPool(d) : WriteFile(d, f)
  \/ \E d \in Dirs : \E f \in DirPool(d) : RemoveFile(d, f)
  \/ \E b \in BOOLEAN : SetEnv(b)
  \/ \E d \in Dirs : IndexPdfs(d)
  \/ \E dirname \in Dirs \cup {""} : AddPdf(dirname)
  \/ ClearIndex
  \/ \E in \in SearchInputs : SearchPdfs(in[1], in[2])

Spec == Init /\ [][Next]_vars

\* The same program imported with the embeddings flag set. The engine needs
\* the sentence_transformers import that sets _EMB_AVAILABLE, so it is
\* importable only if that one is.
InitEmb ==
  /\ fs = [d \in Dirs |-> [exists |-> FALSE, files |-> <<>>]]
  /\ pdfplumber = TRUE
  /\ USE_EMB \in BOOLEAN
  /\ EMB_AVAILABLE = USE_EMB
  /\ EMB_ENGINE_AVAILABLE \in BOOLEAN
  /\ EMB_ENGINE_AVAILABLE => USE_EMB
  /\ env_flag = TRUE
  /\ INDEX = <<>>
  /\ INDEX_LOADED = FALSE
  /\ EMB_INDEX = <<>>
  /\ EMB_MODEL = NoModel
  /\ extIndex = <<>>
  /\ last = Event("import", "", QNone, 0)
  /\ ret = RetNone
  /\ emptyPass = FALSE
  /\ cleared = FALSE
  /\ built = FALSE
  /\ loads = 0
  /\ thr = Idle
  /\ StoreInit

\* The disk changes and the queries explored with embeddings importable.
EmbPool(d) == DirPool(d) \ {"broken.pdf", "notes.txt"}

EmbSearchInputs == {in \in SearchInputs : in[1] \in {Q(<<" ">>), Q(<<"a">>)}}

NextEmb ==
  \/ \E d \in Dirs : \E f \in EmbPool(d) : WriteFile(d, f)
  \/ \E d \in Dirs : \E f \in EmbPool(d) : RemoveFile(d, f)
  \/ \E b \in BOOLEAN : SetEnv(b)
  \/ \E d \in Dirs : IndexPdfs(d)
  \/ \E dirname \in Dirs \cup {""} : AddPdf(dirname)
  \/ ClearIndex
  \/ \E in \in EmbSearchInputs : SearchPdfs(in[1], in[2])

SpecEmb == InitEmb /\ [][NextEmb]_vars

\* The same program over a corpus with a page longer than the snippet window,
\* imported with the flag set and the in-process embeddings importable (the
\* keyword search runs once the flag is switched off).
InitLong ==
  /\ fs = [d \in Dirs |-> [exists |-> FALSE, files |-> <<>>]]
  /\ pdfplumber = TRUE
  /\ USE_EMB = TRUE
  /\ EMB_AVAILABLE = USE_EMB
  /\ EMB_ENGINE_AVAILABLE = FALSE
  /\ env_flag = TRUE
  /\ INDEX = <<>>
  /\ INDEX_LOADED = FALSE
  /\ EMB_INDEX = <<>>
  /\ EMB_MODEL = NoModel
  /\ extIndex = <<>>
  /\ last = Event("import", "", QNone, 0)
  /\ ret = RetNone
  /\ emptyPass = FALSE
  /\ cleared = FALSE
  /\ built = FALSE
  /\ loads = 0
  /\ thr = Idle
  /\ StoreInit

\* The long page's file in one directory and a short one in the other, and
\* queries whose first match on the long page is near its start ("a") or its
\* last character ("b").
LongPool(d) == IF d = DefaultDir THEN {"long.pdf"} ELSE {"one.pdf"}

LongSearchInputs == {Q(<<"a">>), Q(<<"b">>)} \X (1..2)

NextLong ==
  \/ \E d \in Dirs : \E f \in LongPool(d) : WriteFile(d, f)
  \/ \E d \in Dirs : \E f \in LongPool(d) : RemoveFile(d, f)
  \/ \E b \in BOOLEAN : SetEnv(b)
  \/ \E d \in Dirs : IndexPdfs(d)
  \/ \E dirname \in Dirs \cup {""} : AddPdf(dirname)
  \/ ClearIndex
  \/ \E in \in LongSearchInputs : SearchPdfs(in[1], in[2])

SpecLong == InitLong /\ [][NextLong]_vars

\* The program with the engine importable, its embedding feature available
\* or not, and the engine's operations called directly as well.
InitEngine ==
  /\ fs = [d \in Dirs |-> [exists |-> FALSE, files |-> <<>>]]
  /\ pdfplumber = TRUE
  /\ EMB_ENGINE_AVAILABLE \in BOOLEAN
  /\ USE_EMB = EMB_ENGINE_AVAILABLE
  /\ EMB_AVAILABLE = USE_EMB
  /\ env_flag = TRUE
  /\ INDEX = <<>>
  /\ INDEX_LOADED = FALSE
  /\ EMB_INDEX = <<>>
  /\ EMB_MODEL = NoModel
  /\ extIndex = <<>>
  /\ last = Event("import", "", QNone, 0)
  /\ ret = RetNone
  /\ emptyPass = FALSE
  /\ cleared = FALSE
  /\ built = FALSE
  /\ loads = 0
  /\ thr = Idle
  /\ StoreInit

\* The pages a direct build_index call is given: none, or those of one file.
EngineTexts == {<<>>, ExtractDocs(<<"one.pdf">>), ExtractDocs(<<"two.pdf">>)}

EngineSearchInputs == {Q(<<>>), Q(<<"a">>), Q(<<".">>)} \X {1, MaxTopK}

NextEngine ==
  \/ \E d \in Dirs : \E f \in EmbPool(d) : WriteFile(d, f)
  \/ \E b \in BOOLEAN : SetEnv(b)
  \/ \E d \in Dirs : IndexPdfs(d)
  \/ \E in \in EmbSearchInputs : SearchPdfs(in[1], in[2])
  \/ \E docs \in EngineTexts : EngineBuildIndex(docs)
  \/ EngineLoadIndex
  \/ \E in \in EngineSearchInputs : EngineSearch(in[1], in[2])
  \/ EngineLoadModel

SpecEngine == InitEngine /\ [][NextEngine]_vars

\* The program imported with the flag set and the in-process embeddings
\* importable, one thread searching while a second one runs index_pdfs.
InitConc ==
  /\ fs = [d \in Dirs |-> [exists |-> FALSE, files |-> <<>>]]
  /\ pdfplumber = TRUE
  /\ USE_EMB = TRUE
  /\ EMB_AVAILABLE = USE_EMB
  /\ EMB_ENGINE_AVAILABLE = FALSE
  /\ env_flag = TRUE
  /\ INDEX = <<>>
  /\ INDEX_LOADED = FALSE
  /\ EMB_INDEX = <<>>
  /\ EMB_MODEL = NoModel
  /\ extIndex = <<>>
  /\ last = Event("import", "", QNone, 0)
  /\ ret = RetNone
  /\ emptyPass = FALSE
  /\ cleared = FALSE
  /\ built = FALSE
  /\ loads = 0
  /\ thr = Idle
  /\ StoreInit

ConcPool(d) == IF d = DefaultDir THEN {"one.pdf"} ELSE {"two.pdf"}

ConcSearchInputs == {<<Q(<<"a">>), MaxTopK>>}

NextConc ==
  \/ \E d \in Dirs : \E f \in ConcPool(d) : WriteFile(d, f)
  \/ \E b \in BOOLEAN : SetEnv(b)
  \/ \E in \in ConcSearchInputs : SearchPdfs(in[1], in[2])
  \/ \E d \in Dirs : ThrBegin(d)
  \/ ThrEmptyLoaded
  \/ ThrEmptyIndex
  \/ ThrEmptyEmb
  \/ ThrSwapIndex
  \/ ThrSetLoaded
  \/ ThrBuildExt
  \/ ThrCheckModel
  \/ ThrLoadModel
  \/ ThrEncode
  \/ ThrResetEmb
  \/ ThrZip
  \/ ThrAppend
  \/ ThrReturn

SpecConc == InitConc /\ [][NextConc]_vars

\* Two threads calling index_pdfs: the first one in one step, the second one
\* line by line.
NextRace ==
  \/ \E d \in Dirs : \E f \in ConcPool(d) : WriteFile(d, f)
  \/ \E d \in Dirs : IndexPdfs(d)
  \/ \E d \in Dirs : ThrBegin(d)
  \/ ThrEmptyLoaded
  \/ ThrEmptyIndex
  \/ ThrEmptyEmb
  \/ ThrSwapIndex
  \/ ThrSetLoaded
  \/ ThrBuildExt
  \/ ThrCheckModel
  \/ ThrLoadModel
  \/ ThrEncode
  \/ ThrResetEmb
  \/ ThrZip
  \/ ThrAppend
  \/ ThrReturn

SpecRace == InitConc /\ [][NextRace]_vars

\* db alone: the mapping calls of db.py on the database the import left, the
\* file in between corrupted, deleted or initialised again.
InitAudit == Init /\ pdfplumber /\ ~env_flag

\* The sections and mappings the calls are made with; the audit trail is
\* asked for one section or, with the empty str, for all.
AuditSections == {Key420, Key111}

AuditQueries == {Key111, <<>>}

AuditMappings ==
  {Mapping("BNS 1", "", "", "note", "test", "cat"),
   Mapping("BNS 2", "", "", "note2", "test", "cat")}

AuditLimits == {0 - 1, 1, 100}

NextAudit ==
  \/ \E s \in AuditSections, m \in AuditMappings : InsertMapping(s, m)
  \/ \E s \in AuditSections, m \in AuditMappings : UpdateMapping(s, m)
  \/ \E s \in AuditSections, m \in AuditMappings : UpsertMapping(s, m)
  \/ \E s \in AuditQueries, n \in AuditLimits : GetMappingAudit(s, n)
  \/ InitializeDb
  \/ CorruptDatabase
  \/ RemoveDatabase

SpecAudit == InitAudit /\ [][NextAudit]_vars

\* db's backup and restore: the database is changed, corrupted or deleted
\* between backups to the caller's path or to the stamped one and restores.
BackupSections == {Key111}

NextBackup ==
  \/ \E s \in BackupSections, m \in AuditMappings : UpsertMapping(s, m)
  \/ CorruptDatabase
  \/ RemoveDatabase
  \/ BackupDatabase(FALSE, OwnPath)
  \/ BackupDatabase(TRUE, OwnPath)
  \/ \E path \in BackupPaths : RestoreDatabase(path)
  \/ Tick

SpecBackup == InitAudit /\ [][NextBackup]_vars

\* mapping_logic: mappings added with and without persist, looked up, and
\* loaded again by a new import; the database in between corrupted or deleted.
AddInputs ==
  {<<Key222, "BNS 222", "added by test", "">>,
   <<<<" ", "3", "3", "3">>, "BNS 333", "", "">>,
   <<Key420, "BNS 9", "n", "src">>}

MapQueries ==
  {QNone, Q(<<>>), Q(Key222), Q(Key333), Q(Key111), Q(<<"I", "P", "C", " ", "4", "2", "0">>),
   Q(<<"4", "2", "1">>), Q(<<"s">>)}

NextMapping ==
  \/ \E in \in AddInputs, persist \in BOOLEAN :
       AddMapping(in[1], in[2], in[3], in[4], persist)
  \/ \E query \in MapQueries : MapIpcToBns(query)
  \/ LoadMappings
  \/ CorruptDatabase
  \/ RemoveDatabase

SpecMapping == InitAudit /\ [][NextMapping]_vars

\* ------------------------------------------------------------------ claims
\* The last call was a search_pdfs that read the flag as off / as on.
KeywordSearch == last.op = "search_pdfs" /\ ~last.flag

FlaggedSearch == last.op = "search_pdfs" /\ last.flag

\* The last call was index_pdfs (or add_pdf through it) and returned True.
IndexedOk == last.op \in IndexOps /\ ret = RetBool(TRUE)

\* An embedding index is usable: the engine is available and has a persisted
\* index, or the in-process runtime is available and _EMB_INDEX has entries.
EmbUsable ==
  \/ EMB_ENGINE_AVAILABLE /\ extIndex # <<>>
  \/ USE_EMB /\ EMB_AVAILABLE /\ EMB_INDEX # <<>>

\* The keyword search over the current index would answer the last query.
KeywordWouldHit ==
  /\ ~BlankQuery(last.query)
  /\ keyword_search(INDEX, last.query.s, last.top_k) # RetNone

C2_EmptyCorpus == (KeywordSearch /\ emptyPass) => ret = RetNone

\* C2 witness: after the empty pass a keyword search for a word that a PDF on
\* disk contains returned None without a lazy build.
C2_Witness ==
  /\ KeywordSearch /\ emptyPass /\ ~last.lazy
  /\ last.query = Q(<<"a">>) /\ last.top_k >= 1
  /\ \E d \in Dirs : BuildDocs(Glob(d)) # <<>>
  /\ ret = RetNone

\* C3: index_pdfs (and add_pdf) returns False exactly when pdfplumber is
\* absent; with it present the call returns True for a missing, an empty, a
\* corrupt-only or a text-free directory, and the directory exists afterwards.
C3_FalseOnlyWithoutPdfplumber ==
  last.op \in IndexOps => (ret = RetBool(pdfplumber) /\ fs[last.dir].exists)

\* C3 witness: a pass over a directory that holds a PDF file and yields no
\* record (the file does not open or has no text) returned True.
C3_Witness ==
  /\ IndexedOk /\ pdfplumber
  /\ Glob(last.dir) # <<>> /\ INDEX = <<>>

\* C3 witness for the missing directory, which the call created.
C3_WitnessCreated == IndexedOk /\ ~last.existed /\ fs[last.dir].exists

\* C4: an indexing call that repeats the call just before it, on the same
\* directory with nothing on disk changed in between, leaves the keyword
\* index, its loaded flag and the return value as the first call left them.
C4_IdempotentRebuild ==
  [][(last.op \in IndexOps /\ last'.op \in IndexOps /\ last'.dir = last.dir)
       => (INDEX' = INDEX /\ INDEX_LOADED' = INDEX_LOADED /\ ret' = ret)]_vars

\* C4 witness: the second of two indexing calls in a row on a directory whose
\* PDFs yield records.
C4_Witness == IndexedOk /\ last.again /\ INDEX # <<>>

\* The pages of file f whose extracted text is not blank.
TextPages(f) ==
  {p \in 1..Len(FilePool[f].pages) :
     FilePool[f].pages[p].kind = "text" /\ Strip(FilePool[f].pages[p].text) # <<>>}

\* File f opens and every page of it extracts without raising.
Readable(f) ==
  /\ ~FilePool[f].openFails
  /\ \A p \in 1..Len(FilePool[f].pages) : FilePool[f].pages[p].kind # "raise"

Malformed(d) == SelectSeq(Glob(d), LAMBDA f : ~Readable(f))

WellFormed(d) == SelectSeq(Glob(d), LAMBDA f : Readable(f))

\* C6: indexing a directory with one malformed PDF file alongside valid ones
\* yields the index that indexing the valid files alone yields.
C6_CorruptFileSkipped ==
  (IndexedOk /\ Len(Malformed(last.dir)) = 1 /\ WellFormed(last.dir) # <<>>)
    => INDEX = ExtractDocs(WellFormed(last.dir))

\* C6, for a file that fails on open only: such a file contributes no record.
C6_OpenFailureSkipped ==
  (IndexedOk /\ \A f \in SeqToSet(Malformed(last.dir)) : FilePool[f].openFails)
    => INDEX = ExtractDocs(WellFormed(last.dir))

\* The score the claims define, computed apart from the search: the query's
\* tokens are the maximal runs of non-whitespace of the lowercased query, and
\* a token's occurrences in the lowercased page text are counted from the left,
\* each occurrence starting at or after the end of the one before.
TokenRuns(q) ==
  {r \in (1..Len(q)) \X (1..Len(q)) :
     /\ r[1] <= r[2]
     /\ \A i \in r[1]..r[2] : q[i] \notin Whitespace
     /\ (r[1] = 1 \/ q[r[1] - 1] \in Whitespace)
     /\ (r[2] = Len(q) \/ q[r[2] + 1] \in Whitespace)}

RECURSIVE Occurrences(_, _, _)
Occurrences(txt, tok, from) ==
  LET at == {i \in from..Len(txt) : OccursAt(txt, tok, i)}
  IN IF at = {} THEN 0 ELSE 1 + Occurrences(txt, tok, SetMin(at) + Len(tok))

RECURSIVE SumOverRuns(_, _, _)
SumOverRuns(txt, q, runs) ==
  IF runs = {} THEN 0
  ELSE LET r == CHOOSE x \in runs : TRUE
       IN Occurrences(txt, SubSeq(q, r[1], r[2]), 1) + SumOverRuns(txt, q, runs \ {r})

ClaimScore(text, query) ==
  IF query.none THEN 0
  ELSE SumOverRuns(Lower(text), Lower(query.s), TokenRuns(query.s))

\* The positions of the index whose page scores positively for the last query.
Matching == {i \in 1..Len(INDEX) : ClaimScore(INDEX[i].text, last.query) > 0}

\* The index position of a listed hit (file and page identify the record).
PosOf(hit) ==
  CHOOSE i \in 1..Len(INDEX) : INDEX[i].file = hit.file /\ INDEX[i].page = hit.page

HitScore(hit) == ClaimScore(INDEX[PosOf(hit)].text, last.query)

\* The index positions the last result lists.
Listed == {PosOf(ret.hits[n]) : n \in 1..Len(ret.hits)}

\* The last call was a keyword-mode search that returned a result.
KeywordResult == KeywordSearch /\ ret.kind = "result"

Least(a, b) == IF a < b THEN a ELSE b

\* C7: for top_k >= 1 a keyword result lists exactly min(top_k, m) distinct
\* pages, m the number of indexed pages with a positive score, and no page
\* left out scores higher than a listed one.
C7_TopKRespected ==
  (KeywordResult /\ last.top_k >= 1) =>
     /\ Len(ret.hits) = Least(last.top_k, Cardinality(Matching))
     /\ Cardinality(Listed) = Len(ret.hits)
     /\ Listed \subseteq Matching
     /\ \A i \in Listed, j \in Matching \ Listed :
          ClaimScore(INDEX[i].text, last.query) >= ClaimScore(INDEX[j].text, last.query)

\* C7 witness: more pages match than top_k allows, and the page listed first
\* is not the first matching page of the index.
C7_Witness ==
  /\ KeywordResult /\ last.top_k >= 1
  /\ Cardinality(Matching) > last.top_k
  /\ Len(ret.hits) = last.top_k
  /\ \E j \in Matching : j < PosOf(ret.hits[1])

\* C8: after clear_index every keyword-mode search returns None and runs no
\* lazy build, until index_pdfs or add_pdf is called.
C8_ClearedStaysEmpty == (KeywordSearch /\ cleared) => (ret = RetNone /\ ~last.lazy)

\* C8 witness: the default directory holds a PDF whose page matches the query,
\* the index was cleared, and the keyword search returned None.
C8_Witness ==
  /\ KeywordSearch /\ cleared /\ pdfplumber
  /\ ~BlankQuery(last.query) /\ last.top_k >= 1
  /\ \E i \in 1..Len(BuildDocs(Glob(DefaultDir))) :
        ClaimScore(BuildDocs(Glob(DefaultDir))[i].text, last.query) > 0
  /\ ret = RetNone

\* C9: in keyword mode with top_k >= 1, search_pdfs returns None exactly when
\* the index is empty or no indexed page scores positively for the query, and
\* every page a result lists has a positive score.
C9_NoneIffNoPositivePage ==
  (KeywordSearch /\ last.top_k >= 1) =>
     /\ (ret = RetNone) <=> (INDEX = <<>> \/ Matching = {})
     /\ ret # RetNone =>
          /\ ret.kind = "result" /\ ret.mode = "keyword" /\ ret.hits # <<>>
          /\ \A n \in 1..Len(ret.hits) :
               /\ \E i \in 1..Len(INDEX) :
                     INDEX[i].file = ret.hits[n].file /\ INDEX[i].page = ret.hits[n].page
               /\ HitScore(ret.hits[n]) > 0

\* C9 witness: the index holds a page that scores 0 next to pages that score
\* positively, fewer than top_k, and the result lists only the latter.
C9_Witness ==
  /\ KeywordResult /\ last.top_k >= 1
  /\ \E i \in 1..Len(INDEX) : i \notin Matching
  /\ Cardinality(Matching) < last.top_k
  /\ Len(ret.hits) = Cardinality(Matching)

\* C10: keyword hits are listed by non-increasing score, and pages of equal
\* score in the order of their records in the index: among the listed hits,
\* and between a listed hit and a matching page the result leaves out.
C10_RankedStable ==
  KeywordResult =>
     /\ \A m, n \in 1..Len(ret.hits) : m < n =>
           /\ HitScore(ret.hits[m]) >= HitScore(ret.hits[n])
           /\ HitScore(ret.hits[m]) = HitScore(ret.hits[n])
                => PosOf(ret.hits[m]) < PosOf(ret.hits[n])
     /\ \A i \in Listed, j \in Matching \ Listed :
           ClaimScore(INDEX[i].text, last.query) = ClaimScore(INDEX[j].text, last.query)
             => i < j

\* C10 witness: a page scoring 3 is listed before a page scoring 1 that stands
\* before it in the index, and two pages of equal score are both listed.
C10_Witness ==
  /\ KeywordResult
  /\ \E m, n \in 1..Len(ret.hits) :
        /\ m < n
        /\ HitScore(ret.hits[m]) = 3 /\ HitScore(ret.hits[n]) = 1
        /\ PosOf(ret.hits[n]) < PosOf(ret.hits[m])
  /\ \E m, n \in 1..Len(ret.hits) :
        m < n /\ HitScore(ret.hits[m]) = HitScore(ret.hits[n])

\* C11: every snippet of every search_pdfs result, keyword or in-process
\* embedding, is at most 300 characters long.
C11_SnippetBounded ==
  (last.op = "search_pdfs" /\ ret.kind = "result") =>
     \A n \in 1..Len(ret.hits) : Len(ret.hits[n].snippet) <= 300

\* C11 witness: a keyword hit on a page longer than 300 characters whose first
\* match is not at the start of the page; its snippet begins at the match and
\* is exactly 300 characters long.
C11_Witness ==
  /\ KeywordResult
  /\ \E n \in 1..Len(ret.hits) :
        /\ Len(INDEX[PosOf(ret.hits[n])].text) > 300
        /\ ret.hits[n].snippet[1] = "a"
        /\ INDEX[PosOf(ret.hits[n])].text[1] # "a"
        /\ Len(ret.hits[n].snippet) = 300

\* C11 witness for the in-process embedding search: a hit on the long page
\* with a snippet of exactly 300 characters.
C11_WitnessEmbedding ==
  /\ FlaggedSearch /\ ret.kind = "result" /\ ret.mode = "embedding"
  /\ \E n \in 1..Len(ret.hits) :
        /\ \E i \in 1..Len(EMB_INDEX) :
              /\ EMB_INDEX[i].file = ret.hits[n].file
              /\ Len(EMB_INDEX[i].text) > 300
        /\ Len(ret.hits[n].snippet) = 300

\* The spellings of one letter, and the strings that differ from q only in
\* letter case.
CaseOf(c) ==
  IF c \in {"a", "A"} THEN {"a", "A"} ELSE IF c \in {"b", "B"} THEN {"b", "B"} ELSE {c}

RECURSIVE CaseVariants(_)
CaseVariants(q) ==
  IF q = <<>> THEN {<<>>}
  ELSE {<<c>> \o v : c \in CaseOf(Head(q)), v \in CaseVariants(Tail(q))}

\* C12: in the state a keyword-mode search leaves (the index is built, so a
\* further search runs no build), the keyword search for any query that
\* differs from the one just searched only in letter case returns the same
\* result: the same pages in the same order with the same snippets.
C12_CaseInsensitive ==
  (KeywordSearch /\ ~last.query.none) =>
     \A v \in CaseVariants(last.query.s) :
        keyword_search(INDEX, v, last.top_k) = ret

\* C12 witness: the query "A b" found the page whose text is "a b".
C12_Witness ==
  /\ KeywordResult
  /\ last.query = Q(<<"A", " ", "b">>)
  /\ Cardinality(CaseVariants(last.query.s)) = 4
  /\ \E n \in 1..Len(ret.hits) : ret.hits[n].snippet = <<"a", " ", "b">>

\* A query that is None, empty or whitespace only.
Blank(query) ==
  query.none \/ \A i \in 1..Len(query.s) : query.s[i] \in {" ", "\n"}

\* C13: a search_pdfs call with a None, empty or whitespace-only query
\* returns None with the flag on or off, and changes nothing: no directory is
\* created, no index is built or replaced and no model is loaded.
C13_BlankQueryNoEffect ==
  [][(last'.op = "search_pdfs" /\ Blank(last'.query))
       => /\ ret' = RetNone
          /\ UNCHANGED <<fs, INDEX, INDEX_LOADED, EMB_INDEX, EMB_MODEL, extIndex,
                          built, loads>>]_vars

\* C13 witness: a whitespace-only query in keyword mode before any index was
\* built, with a PDF in the default directory that a lazy build would have
\* indexed: the call returned None and the index is still not built.
C13_Witness ==
  /\ KeywordSearch /\ Blank(last.query) /\ ~last.query.none /\ last.query.s # <<>>
  /\ pdfplumber /\ ~INDEX_LOADED /\ ~built
  /\ BuildDocs(Glob(DefaultDir)) # <<>>
  /\ ret = RetNone

\* C13 witness with the flag on.
C13_WitnessFlagged == FlaggedSearch /\ Blank(last.query) /\ ret = RetNone

\* A query made of punctuation and whitespace only.
PunctuationOnly(query) ==
  /\ ~query.none
  /\ \A i \in 1..Len(query.s) : query.s[i] \in {".", " ", "\n"}

\* C14 as stated: a keyword query of punctuation and/or whitespace only
\* yields None, whatever pages are in the index (for any top_k >= 1).
C14_PunctuationYieldsNone ==
  (KeywordSearch /\ PunctuationOnly(last.query) /\ last.top_k >= 1) => ret = RetNone

\* C14 as amended: a whitespace-only keyword query yields None; a query of
\* punctuation is tokenised like any other, one token per run of
\* non-whitespace, and yields None exactly when no indexed page contains one
\* of its tokens.
C14_PunctuationIsAToken ==
  (KeywordSearch /\ PunctuationOnly(last.query)) =>
     /\ Blank(last.query) => ret = RetNone
     /\ (ret = RetNone) <=> (Matching = {})

\* C14 witness: the query "." returned the page whose text holds a ".".
C14_Witness ==
  /\ KeywordResult /\ last.query = Q(<<".">>)
  /\ ret.hits # <<>>
  /\ ret.hits[1].snippet[1] = "."
  /\ \E i \in 1..Len(INDEX) : i \notin Matching

\* C15: add_pdf(file_path) leaves the state and returns the value that
\* index_pdfs leaves and returns on the directory part of file_path, or on
\* "law_pdfs" when file_path has none: the directory exists afterwards and,
\* with pdfplumber present, the index is rebuilt from every PDF of that
\* directory, so no record held before the call remains.
C15_AddPdfIsIndexPdfs ==
  [][last'.op = "add_pdf" =>
       LET d == IF last'.dirname = "" THEN "law_pdfs" ELSE last'.dirname
       IN /\ fs' = [fs EXCEPT ![d].exists = TRUE]
          /\ \E loadOk, encOk, buildOk \in BOOLEAN :
                LET r == index_pdfs(d, loadOk, encOk, buildOk)
                IN /\ ret' = RetBool(r.ret)
                   /\ INDEX' = r.INDEX
                   /\ INDEX_LOADED' = r.INDEX_LOADED
                   /\ EMB_INDEX' = r.EMB_INDEX
                   /\ EMB_MODEL' = r.EMB_MODEL
                   /\ extIndex' = r.extIndex
          /\ pdfplumber =>
                /\ INDEX' = ExtractDocs(SelectSeq(fs[d].files, LAMBDA f : FilePool[f].pdf))
                /\ ret' = RetBool(TRUE)]_vars

\* C15 witness: add_pdf on a file of a directory with two PDFs, while the
\* index held records of another directory's file: the index now holds the
\* pages of both files of the directory and nothing else.
C15_Witness ==
  /\ last.op = "add_pdf" /\ last.dirname = "other" /\ last.stale
  /\ ret = RetBool(TRUE)
  /\ \E i, j \in 1..Len(INDEX) : INDEX[i].file # INDEX[j].file
  /\ \A i \in 1..Len(INDEX) : INDEX[i].file \in SeqToSet(fs["other"].files)

\* C15 witness for a file_path without a directory part: "law_pdfs" was
\* indexed, and the records of the other directory are gone.
C15_WitnessNoDirectory ==
  /\ last.op = "add_pdf" /\ last.dirname = "" /\ last.stale
  /\ ret = RetBool(TRUE)
  /\ INDEX # <<>>
  /\ \A i \in 1..Len(INDEX) : INDEX[i].file \in SeqToSet(fs["law_pdfs"].files)

\* A search_pdfs step that reads the flag as off with a query that has text.
KeywordStep == last'.op = "search_pdfs" /\ ~last'.flag /\ ~Blank(last'.query)

\* C16: a search_pdfs call runs an index build exactly when it reads the flag
\* as off, its query is not blank, and so far no index_pdfs call returned True
\* and clear_index did not run; the build is index_pdfs on "law_pdfs". A
\* search that runs no build leaves directories, indexes and the loaded flag
\* as they are; so does every search once an index exists and every search
\* that reads the flag as on.
C16_LazyBuild ==
  [][last'.op = "search_pdfs" =>
       /\ last'.lazy <=> (KeywordStep /\ ~built)
       /\ last'.lazy =>
             /\ fs' = [fs EXCEPT !["law_pdfs"].exists = TRUE]
             /\ \E loadOk, encOk, buildOk \in BOOLEAN :
                   LET r == index_pdfs("law_pdfs", loadOk, encOk, buildOk)
                   IN /\ INDEX' = r.INDEX
                      /\ INDEX_LOADED' = r.INDEX_LOADED
                      /\ EMB_INDEX' = r.EMB_INDEX
                      /\ extIndex' = r.extIndex
                      /\ built' = r.ret
             /\ pdfplumber =>
                   INDEX' = ExtractDocs(SelectSeq(fs["law_pdfs"].files,
                                                  LAMBDA f : FilePool[f].pdf))
       /\ (built \/ last'.flag \/ ~last'.lazy) =>
             UNCHANGED <<fs, INDEX, INDEX_LOADED, EMB_INDEX, extIndex, built>>]_vars

\* C16 witness: the first keyword search of the process built the index from
\* the PDF in "law_pdfs" and answered from it.
C16_Witness ==
  /\ KeywordResult /\ last.lazy
  /\ built /\ INDEX_LOADED
  /\ INDEX = ExtractDocs(Glob(DefaultDir))
  /\ ret.hits # <<>>

\* C16 witness for the other direction: a keyword search after an indexing
\* call on another directory ran no build, although "law_pdfs" holds a PDF
\* that is not in the index.
C16_WitnessNoRebuild ==
  /\ KeywordSearch /\ ~Blank(last.query) /\ ~last.lazy /\ built /\ ~cleared
  /\ ExtractDocs(Glob(DefaultDir)) # <<>>
  /\ INDEX # ExtractDocs(Glob(DefaultDir))

\* C16 witness without pdfplumber: no index_pdfs call returns True, so a
\* keyword search ran the build, which failed, and returned None.
C16_WitnessRepeated ==
  /\ KeywordSearch /\ last.lazy /\ ~pdfplumber /\ ~built
  /\ ret = RetNone

C17_WitnessFlagged ==
  /\ FlaggedSearch /\ ret.kind = "result" /\ ret.hits # <<>>
  /\ ret.mode = "embedding"
  /\ KeywordWouldHit

\* C18: SentenceTransformer(...) returns a model at most once in the life of
\* the process, and from then on the loaded model is the cached _EMB_MODEL
\* that every build and every in-process search uses.
C18_ModelLoadedOnce ==
  /\ loads <= 1
  /\ loads >= 1 => EMB_MODEL # NoModel

\* C18 witness: the second of two builds in a row of the in-process index,
\* with one model load so far.
C18_Witness ==
  /\ IndexedOk /\ last.again
  /\ InProcess /\ EMB_INDEX # <<>>
  /\ loads = 1

\* C18 witness for searches: an in-process embedding search answered, with
\* one model load so far.
C18_WitnessSearch ==
  /\ FlaggedSearch /\ ret.kind = "result" /\ ret.hits # <<>> /\ InProcess
  /\ loads = 1

\* The last call was a direct call of an engine operation while the
\* embedding feature is unavailable.
UnavailableCall == last.op \in EngineOps /\ ~EMB_ENGINE_AVAILABLE

\* C19: with the embedding feature unavailable no engine operation raises:
\* build_index returns False for any texts, the empty list included,
\* load_index returns False, search returns None for any query and
\* _load_model returns None.
C19_UnavailableIsAValue ==
  UnavailableCall =>
     /\ ret.kind # "raise"
     /\ last.op \in {"engine.build_index", "engine.load_index"} => ret = RetBool(FALSE)
     /\ last.op \in {"engine.search", "engine._load_model"} => ret = RetNone

\* C19 witness: search on the unavailable engine returned None for a query
\* that pages indexed by rag_engine contain.
C19_Witness ==
  /\ UnavailableCall /\ last.op = "engine.search"
  /\ KeywordWouldHit
  /\ ret = RetNone

\* C19 witnesses for build_index, with texts and with none.
C19_WitnessBuild ==
  /\ UnavailableCall /\ last.op = "engine.build_index" /\ last.texts > 0
  /\ ret = RetBool(FALSE)

C19_WitnessBuildEmpty ==
  /\ UnavailableCall /\ last.op = "engine.build_index" /\ last.texts = 0
  /\ ret = RetBool(FALSE)

\* A search by the first thread just ran while the second thread's
\* index_pdfs call was under way, the index having been built before that
\* call began (so that the search cannot start a build of its own).
SearchDuringRebuild ==
  /\ last.op = "search_pdfs" /\ ~Blank(last.query)
  /\ thr.pc # "idle" /\ thr.loaded

\* C20: a search that runs while index_pdfs runs on another thread reads
\* the whole index from before the rebuild or the whole index after it: the
\* in-process embedding index when the flag is set, else the keyword index.
C20_NeverPartial ==
  SearchDuringRebuild =>
     IF last.flag THEN EMB_INDEX \in {thr.oldEmb, BuildEmbIndex(thr.docs)}
     ELSE INDEX \in {thr.old, thr.docs}

\* C20, the keyword index alone: _INDEX is swapped in one assignment, so the
\* unflagged search reads the old records or the new ones.
C20_KeywordIndexWhole ==
  (SearchDuringRebuild /\ ~last.flag) => INDEX \in {thr.old, thr.docs}

\* C20: the state in which it fails: the flagged search rendered its result
\* from an _EMB_INDEX that holds some but not all of the new entries.
C20_PartialObserved ==
  /\ SearchDuringRebuild /\ last.flag
  /\ thr.pc = "line87"
  /\ Len(EMB_INDEX) < Len(thr.docs)
  /\ ret.kind = "result" /\ Len(ret.hits) = Len(EMB_INDEX)
  /\ Len(thr.oldEmb) = Len(thr.docs)

\* C20: the keyword search during a rebuild that changes the records.
C20_KeywordObserved ==
  /\ SearchDuringRebuild /\ ~last.flag
  /\ thr.old # thr.docs
  /\ ret.kind = "result"

\* C21: under concurrent first use the embedding model is loaded at most
\* once.
C21_AtMostOneLoad == loads <= 1

\* C21: the state in which it fails: the second thread passed the test of
\* line 81 before the first thread's index_pdfs cached its model, and then
\* loaded a second one.
C21_LoadedTwice ==
  /\ loads = 2
  /\ last.op = "index_pdfs:thread" /\ thr.pc = "line83"
  /\ EMB_MODEL # NoModel

MappingOps == {"insert_mapping", "update_mapping", "upsert_mapping"}

\* The audit entries a query for section s is about: those of s, or all of
\* them for the empty section.
AskedFor(d, s) == {i \in 1..Len(d.audit) : s = <<>> \/ d.audit[i].ipc_section = s}

\* C22: a mapping call that returns True appends exactly one audit entry for
\* its section, "insert" without previous values if the section had no row
\* and "update" with the previous row if it had one; a call that returns
\* False appends none; get_mapping_audit returns the newest entries asked
\* for, newest first.
C22_AuditTrail ==
  [][LET e == dblast'
         s == e.ipc_section
         existed == Usable(db) /\ \E i \in 1..Len(db.mappings) : db.mappings[i].ipc_section = s
         n == Len(db.audit)
         es == e.entries
     IN /\ (e.op \in MappingOps /\ e.ok) =>
             /\ Len(db'.audit) = n + 1
             /\ \A i \in 1..n : db'.audit[i] = db.audit[i]
             /\ db'.audit[n + 1].ipc_section = s
             /\ db'.audit[n + 1].new_value = Serialized(Row(s, e.mapping))
             /\ \A i \in 1..n : db'.audit[n + 1].id > db.audit[i].id
             /\ IF existed
                THEN /\ db'.audit[n + 1].action = "update"
                     /\ \E i \in 1..Len(db.mappings) :
                          /\ db.mappings[i].ipc_section = s
                          /\ db'.audit[n + 1].previous_value = Serialized(db.mappings[i])
                ELSE /\ db'.audit[n + 1].action = "insert"
                     /\ db'.audit[n + 1].previous_value.empty
        /\ (e.op \in MappingOps /\ ~e.ok) => db'.audit = db.audit
        /\ e.op = "get_mapping_audit" =>
             /\ \A i, j \in 1..Len(es) : i < j => es[i].id > es[j].id
             /\ \A i \in 1..Len(es) : \E k \in AskedFor(db', s) : db'.audit[k] = es[i]
             /\ \A k \in AskedFor(db', s) :
                  \/ \E i \in 1..Len(es) : es[i] = db'.audit[k]
                  \/ /\ Len(es) = e.limit
                     /\ \A i \in 1..Len(es) : es[i].id > db'.audit[k].id]_vars

\* C22 witness: the second upsert of a section just returned True, and the
\* trail of the section ends with its "insert" entry and then its "update"
\* entry, whose previous value is what the insert wrote.
C22_Witness ==
  /\ dblast.op = "upsert_mapping" /\ dblast.ok /\ dblast.existed
  /\ dblast.ipc_section = Key111
  /\ LET mine == SelectSeq(db.audit, LAMBDA a : a.ipc_section = Key111)
     IN /\ Len(mine) = 2
        /\ mine[1].action = "insert" /\ mine[2].action = "update"
        /\ mine[2].previous_value = mine[1].new_value
        /\ mine[2].new_value # mine[1].new_value

\* C22 witnesses: a call returned False (the section exists, or it does
\* not, or the file is no database), and a query returned two entries of
\* one section, cut by its limit.
C22_WitnessRefused ==
  /\ dblast.op = "insert_mapping" /\ ~dblast.ok /\ dblast.existed

C22_WitnessNoRow ==
  /\ dblast.op = "update_mapping" /\ ~dblast.ok /\ ~dblast.existed /\ Usable(db)

C22_WitnessCorrupt ==
  /\ dblast.op = "upsert_mapping" /\ ~dblast.ok /\ db.kind = "corrupt"

C22_WitnessQuery ==
  /\ dblast.op = "get_mapping_audit" /\ dblast.ipc_section = Key111
  /\ Len(dblast.entries) = 2
  /\ dblast.entries[1].action = "update" /\ dblast.entries[2].action = "insert"

C22_WitnessLimit ==
  /\ dblast.op = "get_mapping_audit" /\ dblast.limit = 1
  /\ Len(dblast.entries) = 1 /\ Len(db.audit) > 1

\* C23: restoring from an intact backup returns True and brings back
\* exactly the mappings the backup file held when restore was called;
\* restore returns False and leaves the live database as it was when the
\* backup is missing, fails the integrity check, or the backup of the live
\* database cannot be made. (A copy over the live database that raises is
\* left aside.)
C23_RoundTrip ==
  [][(dblast'.op = "restore_database" /\ ~dblast'.raised) =>
       LET p == dblast'.path
       IN /\ (Integrity(backups[p]) /\ dblast'.pre # "failed")
             => dblast'.ok /\ db'.mappings = backups[p].mappings
          /\ (backups[p].kind = "missing" \/ ~Integrity(backups[p])
                \/ dblast'.pre = "failed")
             => ~dblast'.ok /\ db' = db]_vars

\* C23, the part that holds: a restore refused for one of the three reasons
\* returns False and leaves the live database as it was.
C23_RefusedLeavesDatabase ==
  [][dblast'.op = "restore_database" =>
       LET p == dblast'.path
       IN (backups[p].kind = "missing" \/ ~Integrity(backups[p])
             \/ dblast'.pre = "failed")
          => ~dblast'.ok /\ db' = db]_vars

\* C23, the part that holds: the round trip from an intact backup that is
\* not the file the restore's own backup of the live database writes.
C23_RoundTripApart ==
  [][(dblast'.op = "restore_database" /\ ~dblast'.raised) =>
       LET p == dblast'.path
       IN (Integrity(backups[p]) /\ dblast'.pre # "failed"
             /\ (db.kind = "missing" \/ p # StampPath(clock)))
          => dblast'.ok /\ db' = backups[p]]_vars

\* C23: the state in which it fails: restore returned True and the live
\* database does not hold what the backup held but what it held itself.
C23_BackupOverwritten ==
  /\ dblast.op = "restore_database" /\ dblast.ok /\ dblast.pre = "made"
  /\ dblast.path = StampPath(clock)
  /\ \E i \in 1..Len(db.mappings) : db.mappings[i].ipc_section = Key111
  /\ backups[dblast.path] = db

\* C23: a backup of a file that is not a database was made and refused.
C23_CorruptBackup ==
  /\ dblast.op = "restore_database" /\ ~dblast.ok
  /\ backups[dblast.path].kind = "corrupt"

\* The mapping file holds the section with this bns_section.
InFile(f, key, bns) ==
  \E i \in 1..Len(f) : f[i].key = key /\ f[i].value.bns_section = bns

\* C24 (as stated): after the import the mappings are those of the mapping
\* file; after add_mapping with persist the file holds the new section with
\* its bns_section; after add_mapping without persist map_ipc_to_bns finds
\* the mapping and the file is as it was.
C24_SavedToMappingFile ==
  /\ \A i \in 1..Len(mapfile) :
        /\ mapfile[i].key \in KeysOf(mappings)
        /\ Entry(mappings, mapfile[i].key) = mapfile[i].value
  /\ [][dblast'.op = "add_mapping" =>
          IF dblast'.persist
          THEN InFile(mapfile', Strip(dblast'.ipc_section), dblast'.mapping.bns_section)
          ELSE /\ map_ipc_to_bns(mappings', Q(Strip(dblast'.ipc_section))).found
               /\ mapfile' = mapfile]_vars

\* C24, the half that holds: add_mapping without persist leaves the mapping
\* file and the database alone and map_ipc_to_bns then returns the mapping.
C24_NotPersisted ==
  [][dblast'.op = "add_mapping" /\ ~dblast'.persist =>
       /\ mapfile' = mapfile
       /\ db' = db
       /\ map_ipc_to_bns(mappings', Q(Strip(dblast'.ipc_section))) =
            [found |-> TRUE, key |-> Strip(dblast'.ipc_section)]
       /\ Entry(mappings', Strip(dblast'.ipc_section)) = dblast'.mapping]_vars

\* C24, what persist does: a successful add_mapping with persist leaves the
\* mapping as a row of the database, and the mapping file as it was.
C24_SavedToDatabase ==
  [][dblast'.op = "add_mapping" /\ dblast'.persist /\ dblast'.ok =>
       /\ HasRow(db', Strip(dblast'.ipc_section))
       /\ MappingOf(RowOf(db', Strip(dblast'.ipc_section))) = dblast'.mapping
       /\ mapfile' = mapfile]_vars

\* add_mapping("222", "BNS 222", "added by test") returned True and the
\* mapping file has no section 222.
C24_FileUnchanged ==
  /\ dblast.op = "add_mapping" /\ dblast.persist /\ dblast.ok
  /\ dblast.ipc_section = Key222
  /\ ~InFile(mapfile, Key222, "BNS 222")
  /\ HasRow(db, Key222)

\* add_mapping(" 333", "BNS 333", persist=False) is in memory only.
C24_InMemoryOnly ==
  /\ dblast.op = "add_mapping" /\ ~dblast.persist
  /\ Key333 \in KeysOf(mappings)
  /\ ~HasRow(db, Key333)

\* _EMB_INDEX has one entry per record of _INDEX: same file, page and text,
\* in the same order.
EmbIndexOfIndex ==
  /\ Len(EMB_INDEX) = Len(INDEX)
  /\ \A i \in 1..Len(INDEX) :
        /\ EMB_INDEX[i].file = INDEX[i].file
        /\ EMB_INDEX[i].page = INDEX[i].page
        /\ EMB_INDEX[i].text = INDEX[i].text

\* C25 (as stated): with the in-process embeddings active, after an
\* index_pdfs or add_pdf call that returned True the embedding index has
\* exactly one entry per record of the keyword index just built.
C25_EmbIndexRebuilt ==
  (InProcess /\ last.op \in IndexOps /\ ret = RetBool(TRUE)) => EmbIndexOfIndex

\* C25, what the code keeps: after such a call the embedding index is the
\* one of the keyword index just built, or it is the embedding index the
\* call found.
C25_RebuiltOrKept ==
  [][(InProcess /\ last'.op \in IndexOps /\ ret' = RetBool(TRUE))
       => (EmbIndexOfIndex' \/ EMB_INDEX' = EMB_INDEX)]_vars

\* An indexing pass returned True with entries of an earlier pass left in
\* the embedding index: entries of a file that the keyword index lacks.
C25_StaleEntries ==
  /\ InProcess /\ last.op \in IndexOps /\ ret = RetBool(TRUE)
  /\ INDEX # <<>>
  /\ \E i \in 1..Len(EMB_INDEX) :
        \A j \in 1..Len(INDEX) : INDEX[j].file # EMB_INDEX[i].file

\* An indexing pass returned True with records in the keyword index and no
\* entry in the embedding index.
C25_NoEntries ==
  /\ InProcess /\ last.op \in IndexOps /\ ret = RetBool(TRUE)
  /\ INDEX # <<>> /\ EMB_INDEX = <<>>

\* C26 (as stated): once an indexing pass over a directory without PDFs
\* returned True, every search with the flag on returns None until a pass
\* finds PDFs, whichever embedding index the program uses.
C26_EmptyPassSilences == (FlaggedSearch /\ emptyPass) => ret = RetNone

\* C26, the in-process half: without the embeddings engine the claim holds.
C26_InProcessSilenced ==
  (FlaggedSearch /\ emptyPass /\ ~EMB_ENGINE_AVAILABLE) => ret = RetNone

\* C26: the pass over a directory without PDFs leaves the persisted index
\* of the engine as the earlier build wrote it.
C26_PersistedKept ==
  [][(last'.op \in IndexOps /\ ret' = RetBool(TRUE) /\ Glob(last'.dir) = <<>>)
       => (extIndex' = extIndex /\ EMB_INDEX' = <<>> /\ INDEX' = <<>>)]_vars

\* After the empty pass a search with the flag on returned hits from the
\* engine's persisted index while both in-process indexes are empty.
C26_PersistedAnswers ==
  /\ FlaggedSearch /\ emptyPass /\ EMB_ENGINE_AVAILABLE
  /\ INDEX = <<>> /\ EMB_INDEX = <<>>
  /\ ret.kind = "result" /\ ret.hits # <<>>

\* After the empty pass a search with the flag on and the in-process
\* embeddings returned None although a PDF on disk has text.
C26_InProcessNone ==
  /\ FlaggedSearch /\ emptyPass /\ InProcess
  /\ last.query # QNone /\ last.top_k >= 1
  /\ \E d \in Dirs : BuildDocs(Glob(d)) # <<>>
  /\ ret = RetNone

\* C27: without pdfplumber an index_pdfs or add_pdf call returns False and
\* changes nothing but the existence of its directory; a keyword search with
\* a query that is not blank, run while no index is built, runs the lazy
\* build, returns None and leaves the index as not built.
C27_AbsentChangesNothing ==
  [][~pdfplumber =>
       /\ (last'.op \in IndexOps /\ last' # last) =>
             /\ ret' = RetBool(FALSE)
             /\ fs' = EnsureDir(last'.dir)
             /\ UNCHANGED <<INDEX, INDEX_LOADED, EMB_INDEX, EMB_MODEL, extIndex>>
       /\ (KeywordStep /\ ~INDEX_LOADED) =>
             /\ last'.lazy
             /\ ret' = RetNone
             /\ fs' = EnsureDir(DefaultDir)
             /\ UNCHANGED <<INDEX, INDEX_LOADED, EMB_INDEX, EMB_MODEL, extIndex>>]_vars

\* C27 witness: index_pdfs returned False on a directory it created, and the
\* index is still not built.
C27_Witness ==
  /\ ~pdfplumber /\ last.op \in IndexOps /\ ret = RetBool(FALSE)
  /\ ~last.existed /\ fs[last.dir].exists
  /\ ~INDEX_LOADED /\ INDEX = <<>>

\* C27 witness for the search: after a call that returned False a keyword
\* search ran the lazy build again, with a PDF in the default directory,
\* and returned None.
C27_WitnessRetry ==
  /\ ~pdfplumber /\ KeywordSearch /\ last.lazy /\ ret = RetNone
  /\ fs[DefaultDir].exists /\ Glob(DefaultDir) # <<>>
  /\ ~INDEX_LOADED

\* A text with a character that is not whitespace.
HasText(t) == \E k \in 1..Len(t) : t[k] \notin Whitespace

\* C28: every record of the keyword index and every entry of the in-process
\* embedding index has a text that is neither empty nor whitespace only.
C28_TextNeverEmpty ==
  /\ \A i \in 1..Len(INDEX) : HasText(INDEX[i].text)
  /\ \A i \in 1..Len(EMB_INDEX) : HasText(EMB_INDEX[i].text)

\* C28 witness: a file whose first page is whitespace only and whose second
\* page has text is indexed in both indexes without its first page.
C28_Witness ==
  /\ \E f \in FileNames :
        /\ Len(FilePool[f].pages) >= 2
        /\ FilePool[f].pages[1].kind = "text" /\ ~HasText(FilePool[f].pages[1].text)
        /\ \E i \in 1..Len(INDEX) : INDEX[i].file = f /\ INDEX[i].page = 2
        /\ \E i \in 1..Len(EMB_INDEX) : EMB_INDEX[i].file = f /\ EMB_INDEX[i].page = 2
  /\ last.op \in IndexOps

\* C28 witness for the page without a text layer (extract_text() is None).
C28_WitnessNone ==
  /\ \E f \in FileNames :
        /\ \E p \in 1..Len(FilePool[f].pages) : FilePool[f].pages[p].kind = "none"
        /\ \E i \in 1..Len(INDEX) : INDEX[i].file = f
        /\ \E i \in 1..Len(EMB_INDEX) : EMB_INDEX[i].file = f
  /\ last.op \in IndexOps

\* C29: a record's page is the 1-based position in its file of the page its
\* text was extracted from; of two records of one file the later has the
\* greater page; no two records have the same file and page.
C29_PhysicalPage ==
  /\ \A i \in 1..Len(INDEX) :
        /\ INDEX[i].page \in 1..Len(FilePool[INDEX[i].file].pages)
        /\ FilePool[INDEX[i].file].pages[INDEX[i].page].kind = "text"
        /\ INDEX[i].text = Strip(FilePool[INDEX[i].file].pages[INDEX[i].page].text)
  /\ \A i, j \in 1..Len(INDEX) :
        /\ (i < j /\ INDEX[i].file = INDEX[j].file) => INDEX[i].page < INDEX[j].page
        /\ (i # j) => <<INDEX[i].file, INDEX[i].page>> # <<INDEX[j].file, INDEX[j].page>>

\* C29 witness: the first record of a file is its page 2, its page 1 being
\* dropped, and the next is its page 3.
C29_Witness ==
  /\ last.op \in IndexOps
  /\ \E i \in 1..Len(INDEX) :
        /\ INDEX[i].page = 2
        /\ \A j \in 1..Len(INDEX) : INDEX[j].file = INDEX[i].file => j >= i
        /\ i + 1 <= Len(INDEX)
        /\ INDEX[i + 1].file = INDEX[i].file /\ INDEX[i + 1].page = 3

\* C29 witness: records of two files in one index, each file numbered on
\* its own.
C29_WitnessTwoFiles ==
  /\ last.op \in IndexOps
  /\ \E i, j \in 1..Len(INDEX) :
        /\ INDEX[i].file # INDEX[j].file
        /\ INDEX[i].page = 1 /\ INDEX[j].page = 2

\* The last call was a search_pdfs that returned a result in keyword mode
\* or from the in-process embedding index.
OwnResult ==
  /\ last.op = "search_pdfs" /\ ret.kind = "result"
  /\ last.flag => ~EMB_ENGINE_AVAILABLE

\* C30 (as stated): a result of search_pdfs lists at least one hit and at
\* most max(top_k, 0) hits, for every top_k.
C30_NeverZeroHits ==
  OwnResult =>
    /\ Len(ret.hits) >= 1
    /\ Len(ret.hits) <= (IF last.top_k > 0 THEN last.top_k ELSE 0)

\* C30, for the top_k the interface names (positive): the claim holds.
C30_PositiveTopK ==
  (OwnResult /\ last.top_k >= 1) =>
    (Len(ret.hits) >= 1 /\ Len(ret.hits) <= last.top_k)

\* C30, for the other top_k: a result lists what scores[:top_k] keeps,
\* nothing for 0 and all but the last -top_k hits for a negative top_k.
C30_SliceOfHits ==
  (OwnResult /\ last.top_k <= 0) =>
    Len(ret.hits) = Len(Truncate([i \in 1..(IF last.flag THEN Len(EMB_INDEX)
                                              ELSE Cardinality(Matching)) |-> i],
                                 last.top_k))

\* A keyword search with top_k = 0 returned a result without a hit.
C30_KeywordHeaderOnly ==
  /\ KeywordResult /\ last.top_k = 0 /\ ret.hits = <<>>

\* A search of the in-process embedding index with top_k = 0 returned a
\* result without a hit.
C30_EmbeddingHeaderOnly ==
  /\ OwnResult /\ last.flag /\ last.top_k = 0 /\ ret.hits = <<>>

\* A search with a negative top_k returned a result that lists hits.
C30_NegativeListsHits ==
  /\ OwnResult /\ last.top_k < 0 /\ ret.hits # <<>>

====
